---- MODULE Spec2Model ----
(***************************************************************************)
(* Periodic Lights: the update orchestrator of one Setup (config entry).   *)
(*                                                                         *)
(* The model follows custom_components/periodic_lights: the entry state    *)
(* kept in hass.data[DOMAIN][entry_id], the switches that mutate it, the   *)
(* once-per-minute sensor timer, the light-turned-on listener, and the     *)
(* coroutine async_update_lights_for_entry.  That coroutine runs on the    *)
(* event loop: it executes atomically up to its only await (the            *)
(* light.turn_on service call of one light) and may be suspended there,    *)
(* so one action of the model is one such atomic segment.                  *)
(*                                                                         *)
(* Time is counted in minutes.                                             *)
(***************************************************************************)
EXTENDS Integers, Sequences, FiniteSets, Bags, TLC

\* ---------------------------------------------------------------- bounds
MaxTime == 2          \* the clock runs from 0 to MaxTime
MaxPending == 2       \* tasks created with async_create_task and not yet started
MaxInflight == 1      \* passes suspended at the service-call await
MaxEdits == 1         \* changes of what the targets of a pass are computed
                      \* from: range edits, shaping changes, moves of the curve
MaxOtherPending == 1  \* tasks of the second Setup created and not yet started

\* ------------------------------------------------------ program constants
None == -1                  \* ATTR_LAST_LIGHT_UPDATE: None (no timestamp yet)
TimerPeriod == 1            \* timedelta(minutes=1)
DEFAULT_MIN_KELVIN == 2500
DEFAULT_MAX_KELVIN == 5000
DEFAULT_TRANSITION == 0
DEFAULT_SHAPING_PARAM == 100
DEFAULT_SHAPING_FUNCTION == "gamma_sine"

\* what hass.states.get(light_id) can report: "none" is a missing state (None)
\* and "off" stands for every state string other than "on" (off, unavailable,
\* unknown), which the code never tells apart
LightStates == {"on", "off", "none"}
\* entry.data[CONF_LIGHTS] as the config flow stores it: sorted, no duplicates,
\* never empty
LightLists == {<<"light.a", "light.b">>}
\* entry.data[CONF_UPDATE_INTERVAL] (120 s)
IntervalValues == {2}
\* the values the update_interval input is set to (timer periods)
IntervalInputs == {1, 2}
\* the values the transition input is set to (seconds)
TransitionValues == {0, 1}
\* what daily_cosine_pct returns, in percent (0.0, 0.5, 1.0)
PctValues == {0, 50, 100}
\* the four numeric fields of a range, global (entry_data[CONF_*]) or per light
Fields == {"min_brightness", "max_brightness", "min_kelvin", "max_kelvin"}
\* the values the global number inputs are set to (whole percents and kelvins,
\* as the step of the inputs and the int() of the config flow make them)
GlobalValues ==
    [min_brightness |-> {15}, max_brightness |-> {90},
     min_kelvin |-> {2000}, max_kelvin |-> {6500}]
\* the values the per-light number inputs are set to
PerLightValues ==
    [min_brightness |-> {20}, max_brightness |-> {80},
     min_kelvin |-> {3000}, max_kelvin |-> {4000}]
\* native_min_value and native_max_value of the four global range inputs
NumberLimits ==
    [min_brightness |-> {0, 100}, max_brightness |-> {0, 100},
     min_kelvin |-> {1500, 6500}, max_kelvin |-> {1500, 6500}]
\* the shaping functions selected and the values of the shaping parameter
ShapingFunctions == {"gamma_sine", "triangular"}
ShapingParams == {100, 200}

VARIABLES
    domain_data,            \* hass.data[DOMAIN]: "entry" (this Setup registered),
                            \* "others" (only other Setups), "none" (no DOMAIN key)
    enabled,                \* entry_data[ATTR_ENABLED]
    brightness_enabled,     \* entry_data[ATTR_BRIGHTNESS_ENABLED]
    color_temp_enabled,     \* entry_data[ATTR_COLOR_TEMP_ENABLED]
    bedtime,                \* entry_data[ATTR_BEDTIME]
    transition_on_turn_on,  \* entry_data[ATTR_TRANSITION_ON_TURN_ON]
    lights,                 \* entry_data[CONF_LIGHTS]
    update_interval,        \* entry_data[CONF_UPDATE_INTERVAL]
    transition,             \* entry_data[CONF_TRANSITION]
    min_brightness,         \* entry_data[CONF_MIN_BRIGHTNESS]
    max_brightness,         \* entry_data[CONF_MAX_BRIGHTNESS]
    min_kelvin,             \* entry_data[CONF_MIN_KELVIN]
    max_kelvin,             \* entry_data[CONF_MAX_KELVIN]
    light_settings,         \* entry_data[ATTR_LIGHT_SETTINGS]: per light and
                            \* field the override, None when the key is absent
    shaping_param,          \* entry_data[ATTR_SHAPING_PARAM], in hundredths
    shaping_function,       \* entry_data[ATTR_SHAPING_FUNCTION]
    pct_raw,                \* what daily_cosine_pct(hass) returns at this
                            \* instant, in percent
    sun_state,              \* hass.states.get("sun.sun"): "ok", or "malformed"
                            \* when its attributes make the evaluation raise
    edits,                  \* number of changes of ranges, shaping and curve
                            \* made so far
    last_light_update,      \* entry_data[ATTR_LAST_LIGHT_UPDATE]
    light_on_listener,      \* entry_data[ATTR_LIGHT_ON_LISTENER] is subscribed
    states,                 \* hass.states of the configured lights
    now,                    \* dt_util.utcnow()
    next_timer,             \* next firing of the sensor's time-interval tracker
    pending,                \* forced passes created as tasks, not yet started
    inflight,               \* bag of passes suspended at the service-call await
    ev,                     \* what the last step did (commands, notifications)
    unforced_start,         \* history: the instant of the latest non-forced pass
                            \* that entered its per-light loop
    other,                  \* hass.data[DOMAIN][entry_id] of a second Setup, with
                            \* its timer and its tasks
    calc                    \* the latest evaluation of a function of
                            \* solar_curve.py: its name, arguments and result

vars == <<domain_data, enabled, brightness_enabled, color_temp_enabled, bedtime,
          transition_on_turn_on, lights, update_interval, transition,
          min_brightness, max_brightness, min_kelvin, max_kelvin,
          light_settings, shaping_param, shaping_function, pct_raw, sun_state,
          edits, last_light_update, light_on_listener, states, now, next_timer,
          pending, inflight, ev, unforced_start, other, calc>>

flags == <<enabled, brightness_enabled, color_temp_enabled, bedtime,
           transition_on_turn_on>>
ranges == <<min_brightness, max_brightness, min_kelvin, max_kelvin,
            light_settings>>
shaping == <<shaping_param, shaping_function>>
curve == <<pct_raw, sun_state>>
config == <<lights, update_interval, transition, ranges, shaping, curve,
            edits>>

LightSet == {lights[i] : i \in 1..Len(lights)}

\* a command without attributes, the ranges of no light, and the locals of no
\* pass
NoData == [brightness_pct |-> None, color_temp |-> None, transition |-> None]
NoEff == [f \in Fields |-> None]
NoLocals == [brightness_enabled |-> FALSE, color_temp_enabled |-> FALSE,
             bedtime |-> FALSE, global |-> NoEff, transition |-> 0,
             pct_shaped |-> 0]

\* an entity outside CONF_LIGHTS, and the data of no state_changed event
OtherLight == "light.other"
NoEvent == [entity_id |-> "none", old_state |-> "none", new_state |-> "none"]

\* the entry ids of this Setup and of the second one
ThisEntry == "entry_a"
OtherEntry == "entry_b"

\* no function of solar_curve.py has been evaluated yet
NoCalc == [fn |-> "none"]

\* the second Setup is not registered
NoSetup == [registered |-> FALSE, enabled |-> FALSE, update_interval |-> 0,
            last_light_update |-> None, next_timer |-> None, pending |-> 0]

\* the effects of a step that runs no part of a pass
Quiet == [op |-> "other", force |-> FALSE, notify |-> 0, cmd |-> "none",
          failed |-> "none", skipped |-> {}, outcome |-> "none",
          at |-> None, sendable |-> FALSE, data |-> NoData, eff |-> NoEff,
          locals |-> NoLocals, event |-> NoEvent]

\* ----------------------------------------------------------------- helpers
\* Numbers the code computes as floats are kept exact: curve values are in
\* percent (1.0 is 100), and the results of map_pct_to_range (brightness_pct,
\* kelvin) are in hundredths (55.0 is 5500).

\* solar_curve.py: _clamp01, on percents
clamp01(x) == IF x <= 0 THEN 0 ELSE IF x >= 100 THEN 100 ELSE x

\* int(round(num / den)) for den > 0: round() rounds halves to even
Round(num, den) ==
    LET q == num \div den
        r == num % den
    IN  IF 2 * r < den THEN q
        ELSE IF 2 * r > den THEN q + 1
        ELSE IF q % 2 = 0 THEN q ELSE q + 1

\* x ** g on percents, for a whole exponent g >= 0
RECURSIVE PowPct(_, _)
PowPct(x, g) == IF g = 0 THEN 100 ELSE (x * PowPct(x, g - 1)) \div 100

\* Fixed-point logarithm and exponential, on ten-thousandths (1.0 is Unit),
\* for the powers with an exponent that is not whole.
Unit == 10000
Ln2 == 6931

\* ln(m / Unit) for 0 < m <= Unit: halvings of the argument, then the series
\* 2 * (z + z^3/3 + z^5/5 + z^7/7) with z = (m - 1) / (m + 1)
RECURSIVE LnFix(_)
LnFix(m) ==
    IF 2 * m <= Unit THEN LnFix(2 * m) - Ln2
    ELSE LET z == -(((Unit - m) * Unit) \div (Unit + m))
             z2 == (z * z) \div Unit
             t3 == -(((-z) * z2) \div Unit)
             t5 == -(((-t3) * z2) \div Unit)
             t7 == -(((-t5) * z2) \div Unit)
         IN  2 * (z - ((-t3) \div 3) - ((-t5) \div 5) - ((-t7) \div 7))

RECURSIVE Halved(_, _)
Halved(v, n) == IF n = 0 \/ v = 0 THEN v ELSE Halved(v \div 2, n - 1)

\* exp(y / Unit) for y <= 0: y = r - n * ln 2 with -ln 2 < r <= 0, the series
\* of exp(r) to the fifth power, halved n times
ExpFix(y) ==
    LET n == (-y) \div Ln2
        r == (-y) % Ln2
        r2 == (r * r) \div Unit
        r3 == (r2 * r) \div Unit
        r4 == (r3 * r) \div Unit
        r5 == (r4 * r) \div Unit
        e == Unit - r + (r2 \div 2) - (r3 \div 6) + (r4 \div 24)
                  - (r5 \div 120)
    IN  Halved(e, n)

\* what "0.0 ** gamma" gives for a negative gamma
ZeroDivisionError == -1

\* x ** gamma for a percent x in 0..100 and gamma in hundredths: exact for a
\* whole exponent, exp(gamma * ln x) rounded to a percent otherwise; a value
\* above 1.0 (x < 1, gamma < 0) is given as 2.0, which _clamp01 turns into
\* 1.0 as it does every value above 1.0
Pow(x, gamma) ==
    IF gamma = 0 THEN 100
    ELSE IF x = 0 THEN (IF gamma < 0 THEN ZeroDivisionError ELSE 0)
    ELSE IF x = 100 THEN 100
    ELSE IF gamma < 0 THEN 200
    ELSE IF gamma % 100 = 0 THEN PowPct(x, gamma \div 100)
    ELSE Round(ExpFix((gamma * LnFix(100 * x)) \div 100), 100)

\* _clamp01 of a value, when computing the value did not raise
Clamped(v) == IF v = ZeroDivisionError THEN v ELSE clamp01(v)

\* sin(pi * k / 100) for k = 0 .. 50, in percent
SineTable ==
    <<0, 3, 6, 9, 13, 16, 19, 22, 25, 28, 31, 34, 37, 40, 43, 45, 48, 51, 54,
      56, 59, 61, 64, 66, 68, 71, 73, 75, 77, 79, 81, 83, 84, 86, 88, 89, 90,
      92, 93, 94, 95, 96, 97, 98, 98, 99, 99, 100, 100, 100, 100>>

\* math.sin(math.pi * t) for a percent t in 0..100
SinPi(t) == SineTable[(IF t <= 50 THEN t ELSE 100 - t) + 1]

\* the function ids of select.py and const.py
KnownFunctions ==
    {"gamma_sine", "time_warped_sine", "triangular", "eased_triangular"}

\* str.lower() on the function ids given as inputs
Lower(func) ==
    IF func = "GAMMA_SINE" THEN "gamma_sine"
    ELSE IF func = "Triangular" THEN "triangular"
    ELSE IF func = "Gamma sine" THEN "gamma sine"
    ELSE func

\* mutant: the shaping parameter is used as it is
Gamma_Unclamped(shaping_value) == shaping_value

\* solar_curve.py:163, max(float(shaping), 0.01), in hundredths
Gamma(shaping_value) == IF shaping_value > 1 THEN shaping_value ELSE 1

\* solar_curve.py:170-199: the branches of apply_shaping, for x in percent,
\* the lower-cased function id and gamma in hundredths
Shaped(x, func, gamma) ==
    LET base == x
        d == 2 * x - 100
        tri == clamp01(100 - (IF d < 0 THEN -d ELSE d))
        eased == Round(tri * tri * (300 - 2 * tri), 10000)
        t_warp == Clamped(Pow(x, gamma))
    IN  IF func = "gamma_sine" THEN Clamped(Pow(base, gamma))
        ELSE IF func = "time_warped_sine"
             THEN IF t_warp = ZeroDivisionError THEN t_warp
                  ELSE clamp01(SinPi(t_warp))
        ELSE IF func = "triangular"
             THEN IF gamma # 100 THEN Clamped(Pow(tri, gamma)) ELSE tri
        ELSE IF func = "eased_triangular"
             THEN IF gamma # 100 THEN Clamped(Pow(eased, gamma)) ELSE eased
        ELSE base

\* mutant: an empty function id is not replaced by the default
apply_shaping_NoDefault(raw, func, shaping_value) ==
    Shaped(clamp01(raw), Lower(func), Gamma(shaping_value))

\* solar_curve.py: apply_shaping, with the raw value and the result in
\* percent and the shaping parameter in hundredths; an empty function id
\* stands for None as well, "func or ..." treats the two alike
apply_shaping(raw, func, shaping_value) ==
    Shaped(clamp01(raw),
           Lower(IF func = "" THEN DEFAULT_SHAPING_FUNCTION ELSE func),
           Gamma(shaping_value))

\* mutant: the percentage is not clamped
map_pct_to_range_Unclamped(pct, vmin, vmax) ==
    100 * vmin + (vmax - vmin) * pct

\* solar_curve.py: map_pct_to_range, with pct in percent and the result in
\* hundredths
map_pct_to_range(pct, vmin, vmax) ==
    LET pct_clamped == IF pct < 0 THEN 0 ELSE IF pct > 100 THEN 100 ELSE pct
    IN  100 * vmin + (vmax - vmin) * pct_clamped

\* ------------------------------------------------------ solar_curve.py
\* Instants are counted in ticks of half an hour of local time from a local
\* midnight; the instants drawn as inputs are whole multiples of three hours,
\* so the halves of their differences are whole ticks, as the halves of
\* timedelta values are whole microseconds.
TicksPerHour == 2
Day == 24 * TicksPerHour

\* timedelta / 2
Half(d) == d \div 2

\* 0.5 * (1.0 + cos(2 * pi * k / Day)) for k = 0 .. Day - 1, in hundredths of
\* a percent: cos(0) is exactly 1.0 and cos(pi) exactly -1.0 in floats
CosineTable ==
    <<10000, 9957, 9830, 9619, 9330, 8967, 8536, 8044, 7500, 6913, 6294, 5653,
      5000, 4347, 3706, 3087, 2500, 1956, 1464, 1033, 670, 381, 170, 43,
      0, 43, 170, 381, 670, 1033, 1464, 1956, 2500, 3087, 3706, 4347,
      5000, 5653, 6294, 6913, 7500, 8044, 8536, 8967, 9330, 9619, 9830, 9957>>

\* a SolarCycle, and the outcome of an evaluation that raised
SolarCycle(sunrise, sunset, midday, night_midpoint) ==
    [raised |-> FALSE, sunrise |-> sunrise, sunset |-> sunset,
     midday |-> midday, night_midpoint |-> night_midpoint]
Raised == [raised |-> TRUE]

\* solar_curve.py: _fallback_cycle, with day the local midnight before
\* now_local
_fallback_cycle(now_local) ==
    LET day == now_local - (now_local % Day)
        sunrise == day + 6 * TicksPerHour
        sunset == day + 18 * TicksPerHour
        midday == sunrise + Half(sunset - sunrise)
        next_sunrise == sunrise + Day
        night_midpoint == sunset + Half(next_sunrise - sunset)
    IN  SolarCycle(sunrise, sunset, midday, night_midpoint)

\* An attribute of sun.sun is absent ("none"), a string that parse_datetime
\* turns into None ("unparsable"), a value that is neither a string nor a
\* datetime ("number"), or a string or datetime that gives an instant without
\* ("naive") or with ("aware") a time zone.
Attr(kind, at) == [kind |-> kind, at |-> at]
IsInstant(a) == a.kind \in {"naive", "aware"}

\* the comparison and the arithmetic of lines 79-87 raise TypeError on a
\* number and on a naive datetime mixed with an aware one
Comparable(a, b) == IsInstant(a) /\ IsInstant(b) /\ a.kind = b.kind

\* solar_curve.py: _get_solar_cycle; sun is hass.states.get("sun.sun")
_get_solar_cycle(sun, now_local) ==
    LET next_rising == sun.next_rising
        next_setting == sun.next_setting
    IN  IF ~sun.present THEN _fallback_cycle(now_local)
        ELSE IF next_rising.kind = "none" \/ next_setting.kind = "none"
        THEN _fallback_cycle(now_local)
        ELSE IF next_rising.kind = "unparsable"
                \/ next_setting.kind = "unparsable"
        THEN _fallback_cycle(now_local)
        ELSE IF ~Comparable(next_rising, next_setting) THEN Raised
        ELSE LET sunset == next_setting.at
                 sunrise == IF next_rising.at > sunset
                            THEN next_rising.at - Day
                            ELSE next_rising.at
                 midday == sunrise + Half(sunset - sunrise)
                 next_sunrise == sunrise + Day
                 night_midpoint == sunset + Half(next_sunrise - sunset)
             IN  SolarCycle(sunrise, sunset, midday, night_midpoint)

\* mutant: the phase is counted from sunrise
seconds_since_midday_FromSunrise(now_local, cycle) == now_local - cycle.sunrise

\* solar_curve.py:117
seconds_since_midday(now_local, cycle) == now_local - cycle.midday

\* solar_curve.py: daily_cosine_pct, the pair (pct, cycle) with pct in
\* hundredths of a percent; the cosine has a period of one day
daily_cosine_pct(sun, now_local) ==
    LET cycle == _get_solar_cycle(sun, now_local)
    IN  IF cycle.raised THEN Raised
        ELSE LET k == seconds_since_midday(now_local, cycle) % Day
                 pct == CosineTable[k + 1]
             IN  [raised |-> FALSE,
                  pct |-> IF pct < 0 THEN 0
                          ELSE IF pct > 10000 THEN 10000 ELSE pct,
                  cycle |-> cycle]

\* mutant: the settings of the first light are looked up for every light
Effective_FirstLight(l, field, global_value) ==
    IF light_settings[lights[1]][field] # None
    THEN light_settings[lights[1]][field]
    ELSE global_value

\* "this_light.get(CONF_X, global_x)" with this_light the settings stored for
\* light l (per_light_settings is the dict of the entry state, not a copy)
Effective(l, field, global_value) ==
    IF light_settings[l][field] # None THEN light_settings[l][field]
    ELSE global_value

\* mutant: bedtime does not pin the brightness
BrightnessTarget_Curve(bed, pct, min_b, max_b) ==
    LET v == map_pct_to_range(pct, min_b, max_b)
    IN  IF v < 0 THEN 0 ELSE IF v > 10000 THEN 10000 ELSE v

\* brightness handling: brightness_pct, in hundredths
BrightnessTarget(bed, pct, min_b, max_b) ==
    IF bed
    THEN LET r == Round(min_b, 1)
         IN  100 * (IF r < 0 THEN 0 ELSE IF r > 100 THEN 100 ELSE r)
    ELSE LET v == map_pct_to_range(pct, min_b, max_b)
         IN  IF v < 0 THEN 0 ELSE IF v > 10000 THEN 10000 ELSE v

\* color temperature handling: kelvin, in hundredths
KelvinTarget(bed, pct, min_k, max_k) ==
    IF bed THEN 100 * min_k ELSE map_pct_to_range(pct, min_k, max_k)

\* mutant: the quotient is truncated
Mired_Truncated(kelvin) == 100000000 \div kelvin

\* "mired = int(round(1_000_000 / kelvin))" for kelvin in hundredths
Mired(kelvin) == Round(100000000, kelvin)

\* the ranges lines 105-114 resolve for light l in a pass with locals c
EffectiveRanges(c, l) == [f \in Fields |-> Effective(l, f, c.global[f])]

\* mutant: the curve is evaluated again for every light
ShapedValue_Reevaluated(c) ==
    apply_shaping(pct_raw, shaping_function, shaping_param)

\* pct_shaped of the pass: lines 96-97 run once, before the loop
ShapedValue(c) == c.pct_shaped

\* service_data without its entity_id: None marks a key that is not set
ServiceData(c, l) ==
    LET r == EffectiveRanges(c, l)
        kelvin == KelvinTarget(c.bedtime, ShapedValue(c), r.min_kelvin,
                               r.max_kelvin)
    IN  [brightness_pct |->
            IF c.brightness_enabled
            THEN BrightnessTarget(c.bedtime, ShapedValue(c), r.min_brightness,
                                  r.max_brightness)
            ELSE None,
         color_temp |->
            IF c.color_temp_enabled /\ kelvin > 0 THEN Mired(kelvin)
            ELSE None,
         transition |-> IF c.transition > 0 THEN c.transition ELSE None]

\* mutant: a transition alone does not make a command
HasKeys_IgnoresTransition(d) ==
    d.brightness_pct # None \/ d.color_temp # None

\* "len(service_data) <= 1", negated: a key besides entity_id is set
HasKeys(d) ==
    d.brightness_pct # None \/ d.color_temp # None \/ d.transition # None

\* mutant: only the missing state is skipped
LightIsOn_AnyState(st) == st # "none"

\* "if state is None or state.state != 'on': continue", negated
LightIsOn(st) == st # "none" /\ st = "on"

\* mutant: the window is one unit too short
Throttled_OffByOne(force, last_update, t, interval) ==
    ~force /\ last_update # None /\ (t - last_update) < interval - 1

\* "if not force and last_update is not None: ... if delta < interval: return"
Throttled(force, last_update, t, interval) ==
    ~force /\ last_update # None /\ (t - last_update) < interval

\* mutant: one timestamp for the whole domain, the latest of the Setups
LastUpdateOf_Domain(entry_id) ==
    IF last_light_update > other.last_light_update THEN last_light_update
    ELSE other.last_light_update

\* "entry_data = domain_data.get(entry_id)" and
\* "entry_data.get(ATTR_LAST_LIGHT_UPDATE)": the timestamp of that entry
LastUpdateOf(entry_id) ==
    IF entry_id = ThisEntry THEN last_light_update
    ELSE other.last_light_update

\* mutant: the early returns for a missing DOMAIN or entry send nothing
SendsNotification_OnlyRegistered(force, branch) == force /\ branch = "entry"

\* async_dispatcher_send in each of the three branches of the preamble
SendsNotification(force, branch) == force

\* mutant: a forced pass ignores the master switch
MasterStops_UnlessForced(force, entry_enabled) == ~force /\ ~entry_enabled

\* "if not entry_data.get(ATTR_ENABLED, True): return"
MasterStops(force, entry_enabled) == ~entry_enabled

\* mutant: the clock is read again at the end of the loop
FinishTimestamp_Clock(captured, current) == current

\* "entry_data[ATTR_LAST_LIGHT_UPDATE] = now": the local captured before the
\* throttle check (captured), not the clock at the end of the loop (current)
FinishTimestamp(captured, current) == captured

\* the per-light loop from position i up to the next light that is commanded:
\* the index of that light, or 0 when the loop runs to its end
RECURSIVE NextTarget(_, _)
NextTarget(i, p) ==
    IF i > Len(lights) THEN 0
    ELSE IF /\ LightIsOn(states[lights[i]])
            /\ HasKeys(ServiceData(p.locals, lights[i]))
         THEN i
    ELSE NextTarget(i + 1, p)

\* ------------------------------------------------------------------- Init
\* async_setup_entry, lines 52-77: the entry state of this Setup as seeded,
\* with the shaping function func_id stored and the curve at pct percent
InitEntryWith(pct, func_id) ==
    /\ domain_data = "entry"
    /\ enabled = TRUE
    /\ brightness_enabled = TRUE
    /\ color_temp_enabled = TRUE
    /\ bedtime = FALSE
    /\ transition_on_turn_on = TRUE
    /\ lights \in LightLists
    /\ update_interval \in IntervalValues
    /\ transition = DEFAULT_TRANSITION
    /\ min_brightness = 0
    /\ max_brightness = 100
    /\ min_kelvin = DEFAULT_MIN_KELVIN
    /\ max_kelvin = DEFAULT_MAX_KELVIN
    /\ light_settings = [l \in LightSet |-> NoEff]
    /\ shaping_param = DEFAULT_SHAPING_PARAM
    /\ shaping_function = func_id
    /\ pct_raw = pct
    /\ sun_state = "ok"
    /\ edits = 0
    /\ last_light_update = None
    /\ light_on_listener = (Len(lights) > 0)
    /\ states \in [LightSet -> LightStates]
    /\ now = 0
    /\ next_timer = TimerPeriod
    /\ pending = 0
    /\ inflight = EmptyBag
    /\ ev = Quiet
    /\ unforced_start = None

\* the Setup as seeded, with the curve at its middle value
InitEntry == InitEntryWith(50, DEFAULT_SHAPING_FUNCTION)

\* this Setup alone
Init ==
    /\ InitEntry
    /\ other = NoSetup
    /\ calc = NoCalc

\* ------------------------------------------- async_update_lights_for_entry

\* One atomic segment of the per-light loop of pass p, from p.idx to the next
\* service call or to the end of the loop.  rest is the bag of the other
\* suspended passes.  The service call either returns (the command is
\* dispatched and the pass may be suspended at the await) or raises.
LoopSegment(p, rest, op, notify) ==
  \E t \in {NextTarget(p.idx, p)} :
    LET upto == IF t = 0 THEN Len(lights) ELSE t - 1
        base == [op |-> op, force |-> p.force, notify |-> notify,
                 cmd |-> "none", failed |-> "none",
                 skipped |-> {lights[i] : i \in p.idx..upto},
                 outcome |-> "completed", at |-> None,
                 sendable |-> \/ p.locals.brightness_enabled
                              \/ p.locals.color_temp_enabled,
                 data |-> IF t = 0 THEN NoData
                          ELSE ServiceData(p.locals, lights[t]),
                 eff |-> IF t = 0 THEN NoEff
                         ELSE EffectiveRanges(p.locals, lights[t]),
                 locals |-> p.locals, event |-> NoEvent]
    IN  IF t = 0
        THEN /\ last_light_update' = FinishTimestamp(p.now, now)
             /\ inflight' = rest
             /\ ev' = [base EXCEPT !.at = p.now]
        ELSE \E ok \in BOOLEAN :
               IF ok
               THEN /\ BagCardinality(rest) < MaxInflight
                    /\ inflight' = rest (+) SetToBag({[p EXCEPT !.idx = t + 1]})
                    /\ ev' = [base EXCEPT !.cmd = lights[t],
                                          !.outcome = "suspended"]
                    /\ UNCHANGED last_light_update
               ELSE /\ inflight' = rest
                    /\ ev' = [base EXCEPT !.failed = lights[t],
                                          !.outcome = "raised"]
                    /\ UNCHANGED last_light_update

\* lines 79-97: what a pass reads into its locals before the loop
CaptureLocals ==
    [brightness_enabled |-> brightness_enabled,
     color_temp_enabled |-> color_temp_enabled,
     bedtime |-> bedtime,
     global |-> [min_brightness |-> min_brightness,
                 max_brightness |-> max_brightness,
                 min_kelvin |-> min_kelvin,
                 max_kelvin |-> max_kelvin],
     transition |-> transition,
     pct_shaped |-> apply_shaping(pct_raw, shaping_function, shaping_param)]

\* The coroutine from its first line to its first await (or its return).  The
\* curve evaluation of lines 96-97 is not guarded: with a sun.sun state whose
\* attributes make daily_cosine_pct raise, the coroutine ends there.
async_update_lights_for_entry(force) ==
    LET branch == IF domain_data = "none" THEN "no_domain"
                  ELSE IF domain_data # "entry" THEN "no_entry"
                  ELSE "entry"
        notify == IF SendsNotification(force, branch) THEN 1 ELSE 0
        stop(outcome) ==
            /\ ev' = [Quiet EXCEPT !.op = "start", !.force = force,
                                   !.notify = notify, !.outcome = outcome]
            /\ UNCHANGED <<last_light_update, inflight, unforced_start>>
    IN  IF branch # "entry" THEN stop(branch)
        ELSE IF MasterStops(force, enabled) THEN stop("disabled")
        ELSE IF Len(lights) = 0 THEN stop("no_lights")
        ELSE IF Throttled(force, LastUpdateOf(ThisEntry), now, update_interval)
             THEN stop("throttled")
        ELSE IF sun_state = "malformed" THEN stop("curve_raised")
        ELSE /\ unforced_start' = IF force THEN unforced_start ELSE now
             /\ LoopSegment([force |-> force, now |-> now, idx |-> 1,
                            locals |-> CaptureLocals],
                           inflight, "start", notify)

\* hass.async_create_task(async_update_lights_for_entry(..., force=True))
CreateTask ==
    /\ pending < MaxPending
    /\ pending' = pending + 1

\* the event loop starts a task created by CreateTask
RunPending ==
    /\ pending > 0
    /\ pending' = pending - 1
    /\ async_update_lights_for_entry(TRUE)
    /\ UNCHANGED <<calc, other, domain_data, flags, config, light_on_listener, states, now,
                   next_timer>>

\* the service call a pass awaits has returned: the pass continues its loop
Resume ==
    \E p \in BagToSet(inflight) :
        /\ LoopSegment(p, inflight (-) SetToBag({p}), "resume", 0)
        /\ UNCHANGED <<calc, other, domain_data, flags, config, light_on_listener, states,
                       now, next_timer, pending, unforced_start>>

\* ---------------------------------------------------------------- sensor.py

\* the two sensors of a Setup (sensor.py, async_setup_entry)
Sensors == {"brightness", "color_temp"}

\* mutant: every sensor drives the light updates
_should_update_lights_Always(sensor) == TRUE

\* _should_update_lights: False in the base class, overridden to True by the
\* brightness sensor
_should_update_lights(sensor) == sensor = "brightness"

\* _BasePeriodicSensor._handle_timer after the recalculation of the sensor's
\* own value, which is no state of the Setup: a non-forced pass, awaited in
\* place, when the sensor drives the lights
_handle_timer(sensor) ==
    IF _should_update_lights(sensor)
    THEN async_update_lights_for_entry(FALSE)
    ELSE /\ ev' = [Quiet EXCEPT !.op = "timer", !.outcome = sensor]
         /\ UNCHANGED <<last_light_update, inflight, unforced_start>>

\* the timer of the brightness sensor fires
HandleTimer ==
    /\ next_timer # None
    /\ now = next_timer
    /\ next_timer' = next_timer + TimerPeriod
    /\ _handle_timer("brightness")
    /\ UNCHANGED <<calc, other, domain_data, flags, config, light_on_listener, states, now,
                   pending>>

\* the timer of the color-temperature sensor fires; its period started when
\* that sensor was added, and it lives as long as the brightness sensor's
ColorTempHandleTimer ==
    /\ next_timer # None
    /\ _handle_timer("color_temp")
    /\ UNCHANGED <<calc, other, domain_data, flags, config, light_on_listener, states, now,
                   next_timer, pending>>

\* the clock; the time-interval tracker fires when its instant is reached
AdvanceClock ==
    /\ now < MaxTime
    /\ next_timer # None => now < next_timer
    /\ now' = now + 1
    /\ ev' = Quiet
    /\ UNCHANGED <<calc, other, domain_data, flags, config, last_light_update,
                   light_on_listener, states, next_timer, pending, inflight,
                   unforced_start>>

\* ---------------------------------------------------------------- switch.py

SwitchFrame ==
    /\ ev' = Quiet
    /\ UNCHANGED <<calc, other, domain_data, config, last_light_update, light_on_listener,
                   states, now, next_timer, inflight, unforced_start>>

MasterTurnOn ==
    /\ domain_data = "entry"
    /\ enabled' = TRUE
    /\ CreateTask
    /\ SwitchFrame
    /\ UNCHANGED <<brightness_enabled, color_temp_enabled, bedtime,
                   transition_on_turn_on>>

MasterTurnOff ==
    /\ domain_data = "entry"
    /\ enabled' = FALSE
    /\ SwitchFrame
    /\ UNCHANGED <<brightness_enabled, color_temp_enabled, bedtime,
                   transition_on_turn_on, pending>>

BrightnessTurnOn ==
    /\ domain_data = "entry"
    /\ brightness_enabled' = TRUE
    /\ CreateTask
    /\ SwitchFrame
    /\ UNCHANGED <<enabled, color_temp_enabled, bedtime, transition_on_turn_on>>

BrightnessTurnOff ==
    /\ domain_data = "entry"
    /\ brightness_enabled' = FALSE
    /\ SwitchFrame
    /\ UNCHANGED <<enabled, color_temp_enabled, bedtime, transition_on_turn_on,
                   pending>>

ColorTempTurnOn ==
    /\ domain_data = "entry"
    /\ color_temp_enabled' = TRUE
    /\ CreateTask
    /\ SwitchFrame
    /\ UNCHANGED <<enabled, brightness_enabled, bedtime, transition_on_turn_on>>

ColorTempTurnOff ==
    /\ domain_data = "entry"
    /\ color_temp_enabled' = FALSE
    /\ SwitchFrame
    /\ UNCHANGED <<enabled, brightness_enabled, bedtime, transition_on_turn_on,
                   pending>>

BedtimeTurnOn ==
    /\ domain_data = "entry"
    /\ bedtime' = TRUE
    /\ CreateTask
    /\ SwitchFrame
    /\ UNCHANGED <<enabled, brightness_enabled, color_temp_enabled,
                   transition_on_turn_on>>

BedtimeTurnOff ==
    /\ domain_data = "entry"
    /\ bedtime' = FALSE
    /\ CreateTask
    /\ SwitchFrame
    /\ UNCHANGED <<enabled, brightness_enabled, color_temp_enabled,
                   transition_on_turn_on>>

TransitionOnTurnOnTurnOn ==
    /\ domain_data = "entry"
    /\ transition_on_turn_on' = TRUE
    /\ CreateTask
    /\ SwitchFrame
    /\ UNCHANGED <<enabled, brightness_enabled, color_temp_enabled, bedtime>>

TransitionOnTurnOnTurnOff ==
    /\ domain_data = "entry"
    /\ transition_on_turn_on' = FALSE
    /\ SwitchFrame
    /\ UNCHANGED <<enabled, brightness_enabled, color_temp_enabled, bedtime,
                   pending>>

\* ---------------------------------------------------------------- number.py

\* PeriodicLightsTransitionNumber: _BasePeriodicNumber.async_set_native_value
\* with key CONF_TRANSITION
TransitionSet ==
    /\ domain_data = "entry"
    /\ \E value \in TransitionValues : transition' = value
    /\ ev' = Quiet
    /\ UNCHANGED <<calc, other, domain_data, flags, lights, update_interval, ranges,
                   shaping, curve, edits, last_light_update,
                   light_on_listener, states, now, next_timer, pending,
                   inflight, unforced_start>>

\* one more change of the ranges, the shaping or the curve
CountEdit ==
    /\ edits < MaxEdits
    /\ edits' = edits + 1

\* mutant: a range input creates a forced pass after storing its value
RangeFrame_CreatesTask ==
    /\ CountEdit
    /\ CreateTask
    /\ ev' = Quiet
    /\ UNCHANGED <<calc, other, domain_data, flags, lights, update_interval, transition,
                   shaping, curve, last_light_update, light_on_listener,
                   states, now, next_timer, inflight, unforced_start>>

\* the entry state is untouched apart from the ranges
RangeFrame ==
    /\ CountEdit
    /\ ev' = Quiet
    /\ UNCHANGED <<calc, other, domain_data, flags, lights, update_interval, transition,
                   shaping, curve, last_light_update, light_on_listener,
                   states, now, next_timer, pending, inflight, unforced_start>>

\* PeriodicLightsUpdateIntervalNumber: the base setter stores the value
UpdateIntervalSet ==
    /\ domain_data = "entry"
    /\ \E value \in IntervalInputs :
          /\ value # update_interval
          /\ update_interval' = value
    /\ CountEdit
    /\ ev' = Quiet
    /\ UNCHANGED <<calc, other, domain_data, flags, lights, transition, ranges,
                   shaping, curve, last_light_update, light_on_listener,
                   states, now, next_timer, pending, inflight, unforced_start>>

\* PeriodicLightsMin/MaxBrightnessNumber and PeriodicLightsMin/MaxKelvinNumber:
\* _BasePeriodicNumber.async_set_native_value with the key of the field.  An
\* edit to the value already stored changes nothing and is left out.
GlobalNumberSetFrom(values) ==
    /\ domain_data = "entry"
    /\ \E f \in Fields : \E value \in values[f] :
          LET old == [min_brightness |-> min_brightness,
                      max_brightness |-> max_brightness,
                      min_kelvin |-> min_kelvin, max_kelvin |-> max_kelvin]
              new == [old EXCEPT ![f] = value]
          IN  /\ new # old
              /\ min_brightness' = new.min_brightness
              /\ max_brightness' = new.max_brightness
              /\ min_kelvin' = new.min_kelvin
              /\ max_kelvin' = new.max_kelvin
    /\ RangeFrame
    /\ UNCHANGED light_settings

\* the global range inputs set to the values of GlobalValues
GlobalNumberSet == GlobalNumberSetFrom(GlobalValues)

\* the global range inputs set to the ends of what each input accepts
GlobalNumberSetAny == GlobalNumberSetFrom(NumberLimits)

\* PerLightMin/MaxBrightnessNumber and PerLightMin/MaxKelvinNumber:
\* _BasePerLightNumber.async_set_native_value
PerLightNumberSet ==
    /\ domain_data = "entry"
    /\ \E l \in LightSet, f \in Fields : \E value \in PerLightValues[f] :
          /\ light_settings[l][f] # value
          /\ light_settings' = [light_settings EXCEPT ![l][f] = value]
    /\ RangeFrame
    /\ UNCHANGED <<min_brightness, max_brightness, min_kelvin, max_kelvin>>

\* PeriodicLightsShapingParamNumber.async_set_native_value: the base setter
\* stores the value, then a forced pass is created.  event is what the step
\* leaves in ev; an edit that changes the stored value counts as an edit.
SetShapingParam(value, event) ==
    /\ domain_data = "entry"
    /\ shaping_param' = value
    /\ IF value # shaping_param THEN CountEdit ELSE UNCHANGED edits
    /\ CreateTask
    /\ ev' = event
    /\ UNCHANGED <<calc, other, domain_data, flags, lights, update_interval, transition,
                   ranges, shaping_function, curve, last_light_update,
                   light_on_listener, states, now, next_timer, inflight,
                   unforced_start>>

\* the shaping parameter is set to another value
ShapingParamSet ==
    \E value \in ShapingParams :
        /\ value # shaping_param
        /\ SetShapingParam(value, Quiet)

\* the shaping parameter is set to any value of its range, also the stored
\* one; the value asked for is kept in ev.at
ShapingParamSetAny ==
    \E value \in ShapingParams :
        SetShapingParam(value, [Quiet EXCEPT !.op = "set_shaping_param",
                                             !.at = value])

\* ---------------------------------------------------------------- select.py

\* select.py, _SHAPING_OPTIONS: internal id -> label, and label -> id
ID_TO_LABEL ==
    [id \in {"gamma_sine", "time_warped_sine", "triangular",
             "eased_triangular"} |->
        CASE id = "gamma_sine" -> "Gamma sine"
          [] id = "time_warped_sine" -> "Time-warped sine"
          [] id = "triangular" -> "Triangular (linear)"
          [] id = "eased_triangular" -> "Eased triangular"]

LABEL_TO_ID ==
    [label \in {ID_TO_LABEL[id] : id \in DOMAIN ID_TO_LABEL} |->
        CHOOSE id \in DOMAIN ID_TO_LABEL : ID_TO_LABEL[id] = label]

\* what the select service can be called with: the four labels, an internal
\* id (which is not a label) and a label that was never offered
SelectOptions == DOMAIN LABEL_TO_ID \cup {"gamma_sine", "Linear"}

\* mutant: the select stores the id without creating the forced pass
SelectOption_NoTask(option, event) ==
    /\ domain_data = "entry"
    /\ IF option \notin DOMAIN LABEL_TO_ID
       THEN UNCHANGED shaping_function
       ELSE shaping_function' = LABEL_TO_ID[option]
    /\ ev' = event
    /\ UNCHANGED <<calc, other, domain_data, flags, lights, update_interval, transition,
                   ranges, shaping_param, curve, edits, last_light_update,
                   light_on_listener, states, now, next_timer, pending,
                   inflight, unforced_start>>

\* PeriodicLightsShapingFunctionSelect.async_select_option: an option that is
\* no known label returns at once; else the id is stored, then a forced pass
\* is created.  event is what the step leaves in ev.
SelectOption(option, event) ==
    /\ domain_data = "entry"
    /\ IF option \notin DOMAIN LABEL_TO_ID
       THEN UNCHANGED <<shaping_function, edits, pending>>
       ELSE /\ shaping_function' = LABEL_TO_ID[option]
            /\ IF LABEL_TO_ID[option] # shaping_function THEN CountEdit
               ELSE UNCHANGED edits
            /\ CreateTask
    /\ ev' = event
    /\ UNCHANGED <<calc, other, domain_data, flags, lights, update_interval, transition,
                   ranges, shaping_param, curve, last_light_update,
                   light_on_listener, states, now, next_timer, inflight,
                   unforced_start>>

\* the label of another known function is selected
async_select_option ==
    \E func_id \in ShapingFunctions :
        /\ func_id # shaping_function
        /\ SelectOption(ID_TO_LABEL[func_id], Quiet)

\* any option is selected, also the stored one and unknown ones; the option
\* asked for is kept in ev.outcome
async_select_option_any ==
    \E option \in SelectOptions :
        SelectOption(option, [Quiet EXCEPT !.op = "select_option",
                                           !.outcome = option])

\* ----------------------------------------------------------- solar_curve.py

\* the environment of the curve
CurveFrame ==
    /\ CountEdit
    /\ ev' = Quiet
    /\ UNCHANGED <<calc, other, domain_data, flags, lights, update_interval, transition,
                   ranges, shaping, last_light_update, light_on_listener,
                   states, now, next_timer, pending, inflight, unforced_start>>

\* daily_cosine_pct follows the time of day: its value moves
CurveMoves ==
    /\ \E pct \in PctValues :
          /\ pct # pct_raw
          /\ pct_raw' = pct
    /\ CurveFrame
    /\ UNCHANGED sun_state

\* the state of sun.sun is written by another integration
SunStateChange ==
    /\ \E s \in {"ok", "malformed"} :
          /\ s # sun_state
          /\ sun_state' = s
    /\ CurveFrame
    /\ UNCHANGED pct_raw

\* -------------------------------------------------------------- __init__.py

\* mutant: every event whose new state is "on" counts as a light turned on
TurnedOn_AnyOn(old_state, new_state) ==
    new_state # "none" /\ new_state = "on"

\* _handle_light_state_change, lines 89-99: the new state is there and "on",
\* the old one is missing or not "on"
TurnedOn(old_state, new_state) ==
    LET old_on == old_state # "none" /\ old_state = "on"
        new_on == new_state = "on"
    IN  new_state # "none" /\ ~(~new_on \/ old_on)

\* mutant: the transition_on_turn_on flag is not consulted
FlagAllows_Always == TRUE

\* lines 101-103: state.get(ATTR_TRANSITION_ON_TURN_ON, True) of the entry
\* state, or of {} when the entry is gone
FlagAllows ==
    IF domain_data = "entry" THEN transition_on_turn_on ELSE TRUE

\* whether a state_changed event makes the handler create the forced task:
\* the listener is subscribed, the entity is one of the lights (line 86), the
\* light turned on and the flag allows it
HandlerSchedules(entity_id, old_state, new_state) ==
    /\ light_on_listener
    /\ entity_id \in LightSet
    /\ TurnedOn(old_state, new_state)
    /\ FlagAllows

\* A state_changed event of a configured light, and _handle_light_state_change
\* when the listener is subscribed.
LightStateChange ==
    \E l \in LightSet, s \in LightStates :
        /\ states' = [states EXCEPT ![l] = s]
        /\ IF HandlerSchedules(l, states[l], s) THEN CreateTask
           ELSE UNCHANGED pending
        /\ ev' = Quiet
        /\ UNCHANGED <<calc, other, domain_data, flags, config, last_light_update,
                       light_on_listener, now, next_timer, inflight,
                       unforced_start>>

\* The same handler with the event kept in ev, for any entity: an event of a
\* configured light carries its state as old_state and changes it, an event
\* of another entity changes nothing of the Setup.
StateChangedEvent ==
    \E entity_id \in LightSet \cup {OtherLight} :
      \E old_state \in LightStates, new_state \in LightStates :
        /\ entity_id \in LightSet => old_state = states[entity_id]
        /\ states' = IF entity_id \in LightSet
                     THEN [states EXCEPT ![entity_id] = new_state]
                     ELSE states
        /\ IF HandlerSchedules(entity_id, old_state, new_state)
           THEN CreateTask
           ELSE UNCHANGED pending
        /\ ev' = [Quiet EXCEPT !.op = "state_changed",
                               !.event = [entity_id |-> entity_id,
                                          old_state |-> old_state,
                                          new_state |-> new_state]]
        /\ UNCHANGED <<calc, other, domain_data, flags, config, last_light_update,
                       light_on_listener, now, next_timer, inflight,
                       unforced_start>>

\* async_unload_entry: the listener is unsubscribed; when the platforms unload,
\* the sensors stop their timer, the entry state is popped and DOMAIN is popped
\* with it when no other Setup is left
async_unload_entry ==
    /\ domain_data = "entry"
    /\ light_on_listener' = FALSE
    /\ \E unload_ok \in BOOLEAN, others \in BOOLEAN :
          IF unload_ok
          THEN /\ domain_data' = IF others THEN "others" ELSE "none"
               /\ next_timer' = None
          ELSE UNCHANGED <<calc, other, domain_data, next_timer>>
    /\ ev' = Quiet
    /\ UNCHANGED <<calc, other, flags, config, last_light_update, states, now,
                   pending, inflight, unforced_start>>

\* ------------------------------------------------- restore after a restart

\* entry.data of the Setup: the ranges the config flow stored
ConfiguredRanges ==
    [min_brightness |-> 0, max_brightness |-> 100,
     min_kelvin |-> DEFAULT_MIN_KELVIN, max_kelvin |-> DEFAULT_MAX_KELVIN]

\* SwitchEntity.state of a switch whose is_on is the flag
SwitchState(is_on) == IF is_on THEN "on" ELSE "off"

\* mutant: a switch is on unless its last state says "off"
RestoreSwitch_OnUnlessOff(old_state, default) == old_state # "off"

\* the switches' async_added_to_hass: "old_state.state == 'on'" when there is
\* a last state ("none": async_get_last_state returned None), else the default
RestoreSwitch(old_state, default) ==
    IF old_state # "none" THEN old_state = "on" ELSE default

\* the numbers' async_added_to_hass: float(last_state.state), which gives back
\* the float the state was written from; without a last state, or with
\* "unknown" (both None here), the seeded value stays
RestoreNumber(last_state, seeded) ==
    IF last_state = None THEN seeded ELSE last_state

\* the select's async_added_to_hass: the id of the restored label; without a
\* last state or with an unknown label the seeded id stays
RestoreSelect(last_state, seeded) ==
    IF last_state = "none" \/ last_state \notin DOMAIN LABEL_TO_ID THEN seeded
    ELSE LABEL_TO_ID[last_state]

\* What async_get_last_state returns to each control at the restart: the state
\* the control had written last.  stored is false when nothing was saved;
\* per_light tells whether the per-light numbers without an override are
\* enabled in the registry (they are disabled by default): an enabled one has
\* written the value of its constructor, the configured global value
\* (number.py:177-182).
LastStates(stored, per_light) ==
    LET sw(flag) == IF stored THEN SwitchState(flag) ELSE "none"
        num(value) == IF stored THEN value ELSE None
    IN  [enabled |-> sw(enabled),
         brightness_enabled |-> sw(brightness_enabled),
         color_temp_enabled |-> sw(color_temp_enabled),
         bedtime |-> sw(bedtime),
         transition_on_turn_on |-> sw(transition_on_turn_on),
         min_brightness |-> num(min_brightness),
         max_brightness |-> num(max_brightness),
         min_kelvin |-> num(min_kelvin),
         max_kelvin |-> num(max_kelvin),
         update_interval |-> num(update_interval),
         transition |-> num(transition),
         shaping_param |-> num(shaping_param),
         shaping_function |-> IF stored THEN ID_TO_LABEL[shaping_function]
                              ELSE "none",
         light_settings |->
            [l \in LightSet |-> [f \in Fields |->
                IF ~stored THEN None
                ELSE IF light_settings[l][f] # None THEN light_settings[l][f]
                ELSE IF per_light THEN ConfiguredRanges[f]
                ELSE None]]]

\* Home Assistant restarts with the Setup registered: async_setup_entry seeds
\* the entry state from entry.data, then every control that is added restores
\* its last state into it.  The tasks and the suspended passes of the old
\* process are gone.
Restart ==
    /\ domain_data = "entry"
    /\ \E stored \in BOOLEAN, per_light \in BOOLEAN :
          LET last == LastStates(stored, per_light)
          IN  /\ stored \/ ~per_light
              /\ enabled' = RestoreSwitch(last.enabled, TRUE)
              /\ brightness_enabled'
                    = RestoreSwitch(last.brightness_enabled, TRUE)
              /\ color_temp_enabled'
                    = RestoreSwitch(last.color_temp_enabled, TRUE)
              /\ bedtime' = RestoreSwitch(last.bedtime, FALSE)
              /\ transition_on_turn_on'
                    = RestoreSwitch(last.transition_on_turn_on, TRUE)
              /\ min_brightness' = RestoreNumber(last.min_brightness,
                                                 ConfiguredRanges.min_brightness)
              /\ max_brightness' = RestoreNumber(last.max_brightness,
                                                 ConfiguredRanges.max_brightness)
              /\ min_kelvin' = RestoreNumber(last.min_kelvin,
                                             ConfiguredRanges.min_kelvin)
              /\ max_kelvin' = RestoreNumber(last.max_kelvin,
                                             ConfiguredRanges.max_kelvin)
              /\ update_interval' = RestoreNumber(last.update_interval,
                                                  update_interval)
              /\ transition' = RestoreNumber(last.transition,
                                             DEFAULT_TRANSITION)
              /\ shaping_param' = RestoreNumber(last.shaping_param,
                                                DEFAULT_SHAPING_PARAM)
              /\ shaping_function' = RestoreSelect(last.shaping_function,
                                                   DEFAULT_SHAPING_FUNCTION)
              /\ light_settings' =
                    [l \in LightSet |-> [f \in Fields |->
                        RestoreNumber(last.light_settings[l][f], None)]]
              /\ ev' = [Quiet EXCEPT !.op = "restart",
                                     !.outcome = IF ~stored THEN "no_store"
                                                 ELSE IF per_light
                                                 THEN "store_per_light"
                                                 ELSE "store"]
    /\ last_light_update' = None
    /\ light_on_listener' = (Len(lights) > 0)
    /\ next_timer' = now + TimerPeriod
    /\ pending' = 0
    /\ inflight' = EmptyBag
    /\ unforced_start' = None
    /\ UNCHANGED <<calc, other, domain_data, lights, curve, edits, states, now>>

\* PeriodicLightsMasterSwitch.async_added_to_hass while the Setup is being
\* set up: async_setup_entry has seeded the entry state (ATTR_ENABLED True)
\* and subscribed the listener, and awaits the platforms; the switch, when it
\* is added, restores its last state into the entry state.  The seeded True
\* of enabled stands for the switch not having been added yet.
MasterAddedToHass(old_state) ==
    /\ domain_data = "entry"
    /\ enabled
    /\ enabled' = RestoreSwitch(old_state, TRUE)
    /\ ev' = [Quiet EXCEPT !.op = "added_to_hass"]
    /\ UNCHANGED <<calc, other, domain_data, brightness_enabled,
                   color_temp_enabled, bedtime, transition_on_turn_on, config,
                   last_light_update, light_on_listener, states, now,
                   next_timer, pending, inflight, unforced_start>>

\* the master switch whose last persisted state is "off" is added
MasterRestoresOff == MasterAddedToHass("off")

\* A restart of a Setup whose master switch was last off, from the point
\* where async_setup_entry has seeded the entry state and subscribed the
\* listener (Init is that state): the lights report their states, the event
\* loop runs the tasks, and the master switch is added at some point.
NextSetup ==
    \/ StateChangedEvent
    \/ RunPending
    \/ Resume
    \/ MasterRestoresOff

SpecSetup == Init /\ [][NextSetup]_vars

\* ------------------------------------------------------- the second Setup

\* The same coroutine run for the second Setup, whose CONF_LIGHTS is the one
\* light OtherLight, reporting "on": preamble, the service call (which returns
\* or raises) and the timestamp, with base the entry state when it starts.
OtherPass(force, base) ==
    LET notify == IF SendsNotification(force, "entry") THEN 1 ELSE 0
        done(outcome, cmd, failed) ==
            ev' = [Quiet EXCEPT !.op = "other_setup", !.force = force,
                                !.notify = notify, !.outcome = outcome,
                                !.cmd = cmd, !.failed = failed]
    IN  IF MasterStops(force, other.enabled)
        THEN /\ other' = base
             /\ done("disabled", "none", "none")
        ELSE IF Throttled(force, LastUpdateOf(OtherEntry), now,
                          other.update_interval)
        THEN /\ other' = base
             /\ done("throttled", "none", "none")
        ELSE \E ok \in BOOLEAN :
               IF ok
               THEN /\ other' = [base EXCEPT !.last_light_update =
                                                FinishTimestamp(now, now)]
                    /\ done("completed", OtherLight, "none")
               ELSE /\ other' = base
                    /\ done("raised", "none", OtherLight)

\* what a step of the second Setup leaves alone
OtherFrame ==
    UNCHANGED <<calc, domain_data, flags, config, last_light_update,
                light_on_listener, states, now, next_timer, pending, inflight,
                unforced_start>>

\* _handle_timer of the brightness sensor of the second Setup
OtherHandleTimer ==
    /\ other.registered
    /\ other.next_timer # None
    /\ now = other.next_timer
    /\ OtherPass(FALSE, [other EXCEPT !.next_timer = @ + TimerPeriod])
    /\ OtherFrame

\* the event loop starts a forced task of the second Setup
OtherRunPending ==
    /\ other.registered
    /\ other.pending > 0
    /\ OtherPass(TRUE, [other EXCEPT !.pending = @ - 1])
    /\ OtherFrame

\* the master switch of the second Setup is turned on: a forced task
OtherMasterTurnOn ==
    /\ other.registered
    /\ other.pending < MaxOtherPending
    /\ other' = [other EXCEPT !.enabled = TRUE, !.pending = @ + 1]
    /\ ev' = [Quiet EXCEPT !.op = "other_setup"]
    /\ OtherFrame

\* the master switch of the second Setup is turned off
OtherMasterTurnOff ==
    /\ other.registered
    /\ other' = [other EXCEPT !.enabled = FALSE]
    /\ ev' = [Quiet EXCEPT !.op = "other_setup"]
    /\ OtherFrame

\* the passes of the event loop and the state changes of the lights
Passes ==
    \/ RunPending
    \/ Resume
    \/ LightStateChange

\* Orchestration over time: the timer, the clock and the master switch.
Next ==
    \/ Passes
    \/ HandleTimer
    \/ AdvanceClock
    \/ MasterTurnOn
    \/ MasterTurnOff

Spec == Init /\ [][Next]_vars

\* The controls of a registered Setup at one instant: every switch and the
\* transition input.
NextControls ==
    \/ Passes
    \/ MasterTurnOn
    \/ MasterTurnOff
    \/ BrightnessTurnOn
    \/ BrightnessTurnOff
    \/ ColorTempTurnOn
    \/ ColorTempTurnOff
    \/ BedtimeTurnOn
    \/ BedtimeTurnOff
    \/ TransitionOnTurnOnTurnOn
    \/ TransitionOnTurnOnTurnOff
    \/ TransitionSet

SpecControls == Init /\ [][NextControls]_vars

\* The removal of the Setup at one instant, with the master switch and the
\* passes still pending or suspended when it is removed.
NextLifecycle ==
    \/ Passes
    \/ MasterTurnOn
    \/ MasterTurnOff
    \/ async_unload_entry

SpecLifecycle == Init /\ [][NextLifecycle]_vars

\* The targets of a registered Setup at one instant, for lights that keep
\* their state (on or off): the bedtime switch and the global and per-light
\* range inputs.
InitValues ==
    /\ Init
    /\ \A l \in LightSet : states[l] \in {"on", "off"}

NextValues ==
    \/ RunPending
    \/ Resume
    \/ BedtimeTurnOn
    \/ BedtimeTurnOff
    \/ GlobalNumberSet
    \/ PerLightNumberSet

SpecValues == InitValues /\ [][NextValues]_vars

\* The curve of a registered Setup at one instant, for lights that keep
\* their state: the bedtime switch, the per-light range inputs, the shaping
\* inputs, the value of the curve and the state of the sun.
NextShaping ==
    \/ RunPending
    \/ Resume
    \/ BedtimeTurnOn
    \/ BedtimeTurnOff
    \/ PerLightNumberSet
    \/ ShapingParamSet
    \/ async_select_option
    \/ CurveMoves
    \/ SunStateChange

SpecShaping == InitValues /\ [][NextShaping]_vars

\* The shaping inputs called with anything they can be called with, the
\* curve and the passes, for lights that keep their state.
NextShapingInputs ==
    \/ RunPending
    \/ Resume
    \/ ShapingParamSetAny
    \/ async_select_option_any
    \/ CurveMoves

SpecShapingInputs == InitValues /\ [][NextShapingInputs]_vars

\* The features of a registered Setup at one instant, for lights that keep
\* their state: the brightness and color-temperature switches and the
\* transition input.
NextFeatures ==
    \/ RunPending
    \/ Resume
    \/ BrightnessTurnOn
    \/ BrightnessTurnOff
    \/ ColorTempTurnOn
    \/ ColorTempTurnOff
    \/ TransitionSet

SpecFeatures == InitValues /\ [][NextFeatures]_vars

\* The number inputs of a registered Setup over time, for lights that keep
\* their state: the global range, update_interval, transition and per-light
\* inputs, the timer of the brightness sensor and the clock.
NextNumbers ==
    \/ Resume
    \/ HandleTimer
    \/ AdvanceClock
    \/ TransitionSet
    \/ UpdateIntervalSet
    \/ GlobalNumberSet
    \/ PerLightNumberSet

SpecNumbers == InitValues /\ [][NextNumbers]_vars

\* The periodic ticks of a registered Setup over time, for lights that keep
\* their state: the timers of the two sensors, the clock, and the turn-off of
\* the brightness and color-temperature switches, which creates no pass.
NextTicks ==
    \/ Resume
    \/ HandleTimer
    \/ ColorTempHandleTimer
    \/ AdvanceClock
    \/ BrightnessTurnOff
    \/ ColorTempTurnOff

SpecTicks == InitValues /\ [][NextTicks]_vars

\* The light-turned-on trigger of a registered Setup at one instant: the
\* state_changed events and the transition_on_turn_on switch.
NextTurnOn ==
    \/ RunPending
    \/ Resume
    \/ StateChangedEvent
    \/ TransitionOnTurnOnTurnOn
    \/ TransitionOnTurnOnTurnOff

SpecTurnOn == Init /\ [][NextTurnOn]_vars

\* The same with the scheduling of the event loop: a task that was created is
\* started, and a pass suspended at the service call is resumed.
SpecTurnOnFair ==
    /\ Init
    /\ [][NextTurnOn]_vars
    /\ WF_vars(RunPending)
    /\ WF_vars(Resume)

\* every light of the Setup reports "on"
InitLit ==
    /\ Init
    /\ \A l \in LightSet : states[l] = "on"

\* The color temperature of a registered Setup at one instant, for lights that
\* stay on: its switch, the bedtime switch and the global range inputs.
NextColorTemp ==
    \/ RunPending
    \/ Resume
    \/ ColorTempTurnOn
    \/ ColorTempTurnOff
    \/ BedtimeTurnOn
    \/ GlobalNumberSet

SpecColorTemp == InitLit /\ [][NextColorTemp]_vars

\* The controls of a registered Setup across restarts, at one instant: the
\* master and bedtime switches, the range inputs, the shaping selection and
\* the restart.
NextRestore ==
    \/ MasterTurnOn
    \/ MasterTurnOff
    \/ BedtimeTurnOn
    \/ BedtimeTurnOff
    \/ GlobalNumberSetAny
    \/ PerLightNumberSet
    \/ async_select_option
    \/ Restart

SpecRestore == InitValues /\ [][NextRestore]_vars

\* --------------------------------------------- the solar cycle, evaluated
\* The instants of next_rising, next_setting and of the evaluation: every
\* three hours of MaxSunDays days.
MaxSunDays == 2
SunInstants == {3 * TicksPerHour * k : k \in 0..(8 * MaxSunDays)}

\* the values of an attribute of sun.sun
AttrValues ==
    {Attr(kind, 0) : kind \in {"none", "unparsable", "number"}}
    \cup {Attr(kind, at) : kind \in {"naive", "aware"}, at \in SunInstants}

\* hass.states.get("sun.sun"): None, or a state with its two attributes
SunSources ==
    {[present |-> FALSE, next_rising |-> Attr("none", 0),
      next_setting |-> Attr("none", 0)]}
    \cup [present : {TRUE}, next_rising : AttrValues,
          next_setting : AttrValues]

\* the Setup as seeded, all lights on, nothing running
InitIdle ==
    /\ InitEntry
    /\ \A l \in LightSet : states[l] = "on"
    /\ other = NoSetup

\* a state of sun.sun and an instant, for which the curve is to be evaluated
InitSolar ==
    /\ InitIdle
    /\ \E sun \in SunSources, now_local \in SunInstants :
          calc = [fn |-> "daily_cosine_pct", applied |-> FALSE, sun |-> sun,
                  now_local |-> now_local, result |-> None]

\* what an evaluation of a function of solar_curve.py leaves alone
CalcFrame ==
    UNCHANGED <<domain_data, flags, config, last_light_update,
                light_on_listener, states, now, next_timer, pending, inflight,
                ev, unforced_start, other>>

\* daily_cosine_pct(hass), called by _recalculate of the sensors
EvalDailyCosinePct ==
    /\ calc.fn = "daily_cosine_pct"
    /\ ~calc.applied
    /\ calc' = [calc EXCEPT !.applied = TRUE,
                            !.result = daily_cosine_pct(calc.sun,
                                                        calc.now_local)]
    /\ CalcFrame

NextSolar ==
    \/ EvalDailyCosinePct

SpecSolar == InitSolar /\ [][NextSolar]_vars

\* ------------------------------------- the curve arithmetic, evaluated
\* percentages given to map_pct_to_range, in percent, below 0 and above 1
\* included, and the bounds of the range
MapPcts == {-50, 0, 25, 50, 75, 100, 150}
MapLimits == {0, 15, 90, 100, 1500, 2500, 5000, 6500}

MapInputs ==
    {[fn |-> "map_pct_to_range", applied |-> FALSE, pct |-> pct,
      vmin |-> vmin, vmax |-> vmax, result |-> None] :
        pct \in MapPcts, vmin \in MapLimits, vmax \in MapLimits}

\* map_pct_to_range(pct, vmin, vmax), called by the pass and by the sensors
EvalMapPctToRange ==
    /\ calc.fn = "map_pct_to_range"
    /\ ~calc.applied
    /\ calc' = [calc EXCEPT !.applied = TRUE,
                            !.result = map_pct_to_range(calc.pct, calc.vmin,
                                                        calc.vmax)]
    /\ CalcFrame

\* raw values given to apply_shaping, in percent, below 0 and above 1
\* included; function ids: the four known ones, an empty one, ids in another
\* case, a label of select.py and an id that names no function; shaping
\* parameters in hundredths, from -1.0 to 10.0
ShapingRaws == {-20, 0, 10, 25, 50, 75, 90, 100, 130}
ShapingIds ==
    KnownFunctions \cup {"", "GAMMA_SINE", "Triangular", "Gamma sine", "linear"}
ShapingValues == {-100, 0, 1, 50, 100, 150, 200, 1000}

ShapingInputs ==
    {[fn |-> "apply_shaping", applied |-> FALSE, pct_raw |-> raw,
      func |-> func, shaping |-> shaping_value, result |-> None] :
        raw \in ShapingRaws, func \in ShapingIds,
        shaping_value \in ShapingValues}

\* apply_shaping(pct_raw, func, shaping), called by the pass and by the
\* sensors
EvalApplyShaping ==
    /\ calc.fn = "apply_shaping"
    /\ ~calc.applied
    /\ calc' = [calc EXCEPT !.applied = TRUE,
                            !.result = apply_shaping(calc.pct_raw, calc.func,
                                                     calc.shaping)]
    /\ CalcFrame

InitMath ==
    /\ InitIdle
    /\ calc \in MapInputs \cup ShapingInputs

NextMath ==
    \/ EvalMapPctToRange
    \/ EvalApplyShaping

SpecMath == InitMath /\ [][NextMath]_vars

\* ------------------------------------------------- the pass at midday
\* The Setup at 12:00 of a day without sun.sun, for lights that keep their
\* state: the curve has been evaluated at cycle.midday of the fallback
\* schedule, pct_raw is its value in percent, and one of the four functions
\* of the select is stored.  The bedtime switch and the per-light inputs.
InitMidday ==
    /\ \E sun \in {[present |-> FALSE, next_rising |-> Attr("none", 0),
                    next_setting |-> Attr("none", 0)]} :
         \E result \in {daily_cosine_pct(sun, 12 * TicksPerHour)} :
           /\ calc = [fn |-> "daily_cosine_pct", applied |-> TRUE,
                      sun |-> sun, now_local |-> 12 * TicksPerHour,
                      result |-> result]
           /\ \E func_id \in KnownFunctions :
                 InitEntryWith(Round(result.pct, 100), func_id)
    /\ \A l \in LightSet : states[l] \in {"on", "off"}
    /\ other = NoSetup

NextMidday ==
    \/ RunPending
    \/ Resume
    \/ BedtimeTurnOn
    \/ BedtimeTurnOff
    \/ PerLightNumberSet

SpecMidday == InitMidday /\ [][NextMidday]_vars

\* Two registered Setups at one instant, for lights that keep their state:
\* the bedtime switch and the transition input of this Setup, the master
\* switch and the timer of the second one, and the passes of both.  The tracker of the second Setup is due at this instant.
InitSetups ==
    /\ InitEntry
    /\ \A l \in LightSet : states[l] \in {"on", "off"}
    /\ \E i \in IntervalValues :
          other = [registered |-> TRUE, enabled |-> TRUE,
                   update_interval |-> i, last_light_update |-> None,
                   next_timer |-> now, pending |-> 0]
    /\ calc = NoCalc

NextSetups ==
    \/ RunPending
    \/ Resume
    \/ BedtimeTurnOn
    \/ TransitionSet
    \/ OtherHandleTimer
    \/ OtherRunPending
    \/ OtherMasterTurnOn
    \/ OtherMasterTurnOff

SpecSetups == InitSetups /\ [][NextSetups]_vars

TypeOK ==
    /\ domain_data \in {"entry", "others", "none"}
    /\ last_light_update \in {None} \cup 0..MaxTime
    /\ pending \in 0..MaxPending
    /\ BagCardinality(inflight) <= MaxInflight
    /\ edits \in 0..MaxEdits
    /\ pct_raw \in PctValues
    /\ shaping_function \in KnownFunctions
    /\ shaping_param \in ShapingParams
    /\ \A l \in LightSet, f \in Fields :
          light_settings[l][f]
            \in {None, ConfiguredRanges[f]} \cup PerLightValues[f]

\* ------------------------------------------------------------------ claims

\* a step that runs the first segment of a pass / any segment of a pass
Starts == ev'.op = "start"
PassStep == ev'.op \in {"start", "resume"}
\* the outcomes of a pass that got past the master, empty-list and throttle
\* checks
PastChecks == {"suspended", "completed", "raised"}

\* C1: a non-forced invocation made while last_light_update is set and
\* now - last_light_update < update_interval issues no command to any light,
\* leaves last_light_update unchanged and leaves no pass behind.
C1_ThrottledPassDoesNothing ==
    [][(/\ Starts
        /\ ~ev'.force
        /\ last_light_update # None
        /\ now - last_light_update < update_interval)
       => (/\ ev'.cmd = "none"
           /\ last_light_update' = last_light_update
           /\ inflight' = inflight)]_vars

\* C1 witness: a tick was throttled on an enabled Setup with a light that is on
C1_Witness ==
    /\ ev.op = "start"
    /\ ~ev.force
    /\ ev.outcome = "throttled"
    /\ enabled
    /\ \E l \in LightSet : states[l] = "on"

\* C3: an invocation (forced or not) made while master_enabled is false issues
\* no command, leaves last_light_update unchanged and leaves no pass behind.
C3_MasterOffPassDoesNothing ==
    [][(Starts /\ ~enabled)
       => (/\ ev'.cmd = "none"
           /\ last_light_update' = last_light_update
           /\ inflight' = inflight)]_vars

\* C3 witness: a forced pass stopped at the master check although a light is on
C3_Witness ==
    /\ ev.op = "start"
    /\ ev.force
    /\ ev.outcome = "disabled"
    /\ ~enabled
    /\ \E l \in LightSet : states[l] = "on"

\* C4: every command a pass issues goes to a light that reports "on"; a light
\* that reports anything else, or has no state, receives none.
C4_OnlyLightsThatAreOn ==
    ev.cmd # "none" => states[ev.cmd] = "on"

\* C4 witness: a forced pass on an enabled Setup skipped a light that is not on
\* and commanded the next one
C4_Witness ==
    /\ ev.force
    /\ ev.cmd = "light.b"
    /\ "light.a" \in ev.skipped
    /\ states["light.a"] # "on"

\* C7: a forced invocation sends the observer notification exactly once: in its
\* first segment, whatever stops it there (unregistered Setup, master off, no
\* light to command), and not again in its later segments.
C7_ForcedNotifiesOnce ==
    /\ (ev.op = "start" /\ ev.force) => ev.notify = 1
    /\ ev.op = "resume" => ev.notify = 0

\* C7 witness: a forced pass for a Setup that is no longer registered notified
C7_Witness ==
    /\ ev.op = "start"
    /\ ev.force
    /\ ev.outcome \in {"no_entry", "no_domain"}
    /\ ev.notify = 1

\* C9: a pass that finishes the per-light loop sets last_light_update to the
\* instant it captured before its throttle check: the clock of its first
\* segment, also when the loop ends in a later segment or skipped every light.
C9_FinishSetsCapturedInstant ==
    [][(PassStep /\ ev'.outcome = "completed")
       => IF ev'.op = "start"
          THEN last_light_update' = now
          ELSE \E p \in BagToSet(inflight) :
                 /\ inflight' = inflight (-) SetToBag({p})
                 /\ last_light_update' = p.now]_vars

\* C9 witness: a pass that was suspended while the clock advanced finished its
\* loop without a further command
C9_Witness ==
    /\ ev.op = "resume"
    /\ ev.outcome = "completed"
    /\ ev.cmd = "none"
    /\ last_light_update = ev.at
    /\ ev.at < now

\* C2 (as claimed): a forced pass on a registered, master-enabled Setup always
\* runs its loop to the end: no segment of it fails, with brightness or color
\* temperature enabled it skips no light that reports "on", and when the loop
\* ends last_light_update is the instant of the pass.
C2_ForcedPassAlwaysProceeds ==
    (/\ ev.force
     /\ ev.op \in {"start", "resume"}
     /\ ev.outcome \notin {"no_domain", "no_entry", "disabled", "no_lights"})
    => (/\ ev.outcome \in {"suspended", "completed"}
        /\ ev.sendable => \A l \in ev.skipped : states[l] # "on"
        /\ ev.outcome = "completed" => last_light_update = ev.at)

\* C5 (as claimed): at most one pass is in flight per Setup: no pass runs from
\* its throttle check to its write of last_light_update while another pass is
\* suspended inside its per-light loop.
C5_OnePassInFlight ==
    ~(ev.op = "start" /\ ev.outcome = "completed" /\ inflight # EmptyBag)

\* C6 (as claimed): at most one pass is scheduled and not yet started.
C6_PendingCoalesced ==
    pending <= 1

\* C8 (as claimed): two non-forced passes that get past the throttle check
\* start at least update_interval apart.
C8_ThrottleSpacing ==
    [][(/\ Starts
        /\ ~ev'.force
        /\ ev'.outcome \in PastChecks
        /\ unforced_start # None)
       => now - unforced_start >= update_interval]_vars

\* C10 (as claimed): a failed dispatch for one light does not end the pass.
C10_FailureIsolated ==
    ev.failed # "none" => ev.outcome # "raised"

\* the override stored for the commanded light in a field, or the value the
\* pass read for the Setup when there is none
EffOfCommand(f) ==
    IF light_settings[ev.cmd][f] # None THEN light_settings[ev.cmd][f]
    ELSE ev.locals.global[f]

\* C11: in a pass that read bedtime = true, every command to a light carries,
\* with brightness enabled, exactly that light's effective min_brightness
\* (clamped to 0..100) and, with color temperature enabled, the mired value
\* round(1000000 / effective min_kelvin), whatever the curve value, the shaping
\* function and the shaping parameter of the pass are.
C11_BedtimePinsToMinimum ==
    (ev.cmd # "none" /\ ev.locals.bedtime)
    => LET min_b == EffOfCommand("min_brightness")
           min_k == EffOfCommand("min_kelvin")
       IN  /\ ev.locals.brightness_enabled
                => ev.data.brightness_pct
                     = 100 * (IF min_b < 0 THEN 0
                              ELSE IF min_b > 100 THEN 100 ELSE min_b)
           /\ ev.locals.color_temp_enabled
                => /\ ev.data.color_temp # None
                   /\ 2 * min_k * ev.data.color_temp - 2000000 <= min_k
                   /\ 2000000 - 2 * min_k * ev.data.color_temp <= min_k

\* C11 witness: a bedtime pass whose curve value is above 0 commanded a light
\* that has a min_brightness override, with that override as the target
C11_Witness ==
    /\ ev.cmd # "none"
    /\ ev.locals.bedtime
    /\ ev.locals.brightness_enabled
    /\ ev.locals.color_temp_enabled
    /\ light_settings[ev.cmd]["min_brightness"] # None
    /\ ev.data.brightness_pct = 100 * light_settings[ev.cmd]["min_brightness"]
    /\ ev.locals.pct_shaped > 0

\* C12: for every command of a pass and each of the four fields, the value the
\* pass used for the commanded light is the override stored for that light and
\* field when there is one and the global value the pass read otherwise,
\* whatever is stored for other lights and other fields; the curve-driven
\* brightness target is computed from exactly these values.
C12_OverrideElseGlobal ==
    ev.cmd # "none"
    => /\ \A f \in Fields : ev.eff[f] = EffOfCommand(f)
       /\ (ev.locals.brightness_enabled /\ ~ev.locals.bedtime)
            => LET v == 100 * EffOfCommand("min_brightness")
                          + (EffOfCommand("max_brightness")
                               - EffOfCommand("min_brightness"))
                            * ev.locals.pct_shaped
               IN  ev.data.brightness_pct
                     = IF v < 0 THEN 0 ELSE IF v > 10000 THEN 10000 ELSE v

\* C12 witness: the second light was commanded with the global max_brightness
\* while the first light has a max_brightness override
C12_Witness ==
    /\ ev.cmd = "light.b"
    /\ light_settings["light.a"]["max_brightness"] # None
    /\ light_settings["light.b"]["max_brightness"] = None
    /\ ev.eff["max_brightness"] = max_brightness
    /\ ev.eff["max_brightness"] # light_settings["light.a"]["max_brightness"]

\* C13: a pass evaluates the curve once and every light it commands sees that
\* one shaped value: a pass that continues after a suspension continues with
\* the shaped value it had when it was suspended, and the brightness and
\* color-temperature targets of every command are the function of that value
\* and of the light's effective ranges, so two lights with equal ranges get
\* equal targets, also when the shaping function, the shaping parameter or the
\* curve value changed while the pass was suspended between them.
C13_SameShapedValueForAllLights ==
    [][(PassStep /\ ev'.cmd # "none")
       => LET c == ev'.locals
              r == ev'.eff
              b == 100 * r.min_brightness
                     + (r.max_brightness - r.min_brightness) * c.pct_shaped
              k == 100 * r.min_kelvin
                     + (r.max_kelvin - r.min_kelvin) * c.pct_shaped
              m == ev'.data.color_temp
          IN  /\ ev'.op = "resume"
                   => \E p \in BagToSet(inflight) : p.locals = c
              /\ \A q \in BagToSet(inflight') \ BagToSet(inflight) :
                   q.locals = c
              /\ (c.brightness_enabled /\ ~c.bedtime)
                   => ev'.data.brightness_pct
                        = IF b < 0 THEN 0 ELSE IF b > 10000 THEN 10000 ELSE b
              /\ (c.color_temp_enabled /\ ~c.bedtime /\ k > 0)
                   => /\ m # None
                      /\ 2 * k * m - 200000000 <= k
                      /\ 200000000 - 2 * k * m <= k]_vars

\* C13 witness: a curve-driven pass commanded its second light, whose ranges
\* equal those of the first, after the curve had changed: a pass starting now
\* would compute another shaped value
C13_Witness ==
    /\ ev.op = "resume"
    /\ ev.cmd = "light.b"
    /\ states["light.a"] = "on"
    /\ light_settings["light.a"] = light_settings["light.b"]
    /\ ~ev.locals.bedtime
    /\ ev.locals.brightness_enabled
    /\ ev.locals.color_temp_enabled
    /\ apply_shaping(pct_raw, shaping_function, shaping_param)
         # ev.locals.pct_shaped

C15_OnlyOnEdgeIntoOn ==
    [][ev'.op = "state_changed"
       => LET e == ev'.event
              edge == /\ e.entity_id \in LightSet
                      /\ e.new_state = "on"
                      /\ e.old_state # "on"
          IN  /\ pending' \in {pending, pending + 1}
              /\ pending' = pending + 1 => edge
              /\ (edge /\ transition_on_turn_on) => pending' = pending + 1
              /\ ev'.cmd = "none"
              /\ inflight' = inflight]_vars

\* C15 witness: a light without a state came on and a pass is scheduled
C15_Witness ==
    /\ ev.op = "state_changed"
    /\ ev.event.entity_id = "light.a"
    /\ ev.event.old_state = "none"
    /\ ev.event.new_state = "on"
    /\ transition_on_turn_on
    /\ pending = 1

\* C16: while transition_on_turn_on is false, a state_changed event, also an
\* edge into "on", creates no pass, issues no command, sends no notification
\* and leaves last_light_update alone.
C16_FlagOffIgnoresTurnOn ==
    [][(ev'.op = "state_changed" /\ domain_data = "entry"
          /\ ~transition_on_turn_on)
       => /\ pending' = pending
          /\ inflight' = inflight
          /\ ev'.cmd = "none"
          /\ ev'.notify = 0
          /\ last_light_update' = last_light_update]_vars

\* C16 witness: a light of the list came on while the flag was false and
\* nothing is scheduled
C16_Witness ==
    /\ ev.op = "state_changed"
    /\ ev.event.entity_id \in LightSet
    /\ ev.event.old_state = "off"
    /\ ev.event.new_state = "on"
    /\ ~transition_on_turn_on
    /\ pending = 0
    /\ inflight = EmptyBag

\* C17 (as claimed): turning the bedtime switch off stores bedtime = false and
\* creates a forced pass, and a forced pass that read bedtime = false on a
\* master-enabled Setup gives every light that reports "on" a curve-driven
\* target: none of its segments ends in an exception and it skips no light
\* that is on.
C17_BedtimeOffReachesEveryLight ==
    [][/\ (bedtime /\ ~bedtime') => pending' = pending + 1
       /\ (/\ PassStep
           /\ ev'.force
           /\ ev'.outcome \in PastChecks
           /\ ~ev'.locals.bedtime)
          => /\ ev'.outcome # "raised"
             /\ \A l \in ev'.skipped : states[l] # "on"
             /\ (ev'.cmd # "none" /\ ev'.locals.brightness_enabled)
                  => LET r == ev'.eff
                         v == 100 * r.min_brightness
                                + (r.max_brightness - r.min_brightness)
                                  * ev'.locals.pct_shaped
                     IN  ev'.data.brightness_pct
                           = IF v < 0 THEN 0
                             ELSE IF v > 10000 THEN 10000 ELSE v]_vars

\* C18 (as claimed): turning the bedtime switch on stores bedtime = true and
\* creates no pass.
C18_BedtimeOnSchedulesNothing ==
    [][(~bedtime /\ bedtime') => pending' = pending]_vars

\* C19 (as claimed): an exception raised by the curve evaluation is caught in
\* every trigger path: a pass that reaches the evaluation while it raises does
\* not end with the exception leaving the handler, and it leaves
\* last_light_update unchanged.
C19_CurveFailureIsCaught ==
    [][(PassStep /\ sun_state = "malformed")
       => /\ ev'.outcome # "curve_raised"
          /\ last_light_update' = last_light_update]_vars

\* C20: Setups are independent.  A step of this Setup (a segment of a pass, a
\* toggle, a numeric edit) leaves the entry state, the timer and the tasks of
\* the second Setup unchanged and commands only lights of its own list; a step
\* of the second Setup leaves everything of this Setup unchanged and commands
\* only its own light; and a non-forced pass of the second Setup is throttled
\* exactly when its own timestamp is recent, whatever the timestamp of this
\* Setup.
C20_SetupsAreIndependent ==
    [][/\ ev'.op # "other_setup"
          => /\ other' = other
             /\ ev'.cmd \in LightSet \cup {"none"}
       /\ ev'.op = "other_setup"
          => /\ UNCHANGED <<domain_data, flags, lights, update_interval,
                            transition, ranges, shaping, last_light_update,
                            light_on_listener, pending, inflight>>
             /\ ev'.cmd \in {OtherLight, "none"}
       /\ (ev'.op = "other_setup" /\ ~ev'.force /\ ev'.outcome # "none"
             /\ other.enabled)
          => (ev'.outcome = "throttled"
                <=> /\ other.last_light_update # None
                    /\ now - other.last_light_update < other.update_interval)
      ]_vars

\* C20 witness: this Setup has completed a pass at this instant, and the tick
\* of the second Setup, at the same instant, was not throttled and commanded
\* its light
C20_Witness ==
    /\ last_light_update = now
    /\ ev.op = "other_setup"
    /\ ~ev.force
    /\ ev.cmd = OtherLight
    /\ other.last_light_update = now

\* C21: restore round trip.  After a restart, every flag, numeric setting,
\* shaping function and per-light override for which a last state was
\* persisted equals that persisted value (for what was written by the running
\* Setup: the value it had before the restart), and every control without a
\* persisted value has its default: the flags true, true, true, false, true,
\* the configured ranges, gamma_sine with parameter 1, no override.
C21_RestoreRoundTrip ==
    [][ev'.op = "restart"
       => LET last == LastStates(ev'.outcome # "no_store",
                                 ev'.outcome = "store_per_light")
              flag(now_on, old_state, default) ==
                  IF old_state = "none" THEN now_on = default
                  ELSE now_on = (old_state = "on")
              number(value, old_state, default) ==
                  IF old_state = None THEN value = default
                  ELSE value = old_state
          IN  /\ flag(enabled', last.enabled, TRUE)
              /\ flag(brightness_enabled', last.brightness_enabled, TRUE)
              /\ flag(color_temp_enabled', last.color_temp_enabled, TRUE)
              /\ flag(bedtime', last.bedtime, FALSE)
              /\ flag(transition_on_turn_on', last.transition_on_turn_on,
                      TRUE)
              /\ \A f \in Fields :
                    number(<<min_brightness', max_brightness', min_kelvin',
                             max_kelvin'>>[CHOOSE i \in 1..4 :
                                <<"min_brightness", "max_brightness",
                                  "min_kelvin", "max_kelvin">>[i] = f],
                           last[f], ConfiguredRanges[f])
              /\ number(shaping_param', last.shaping_param,
                        DEFAULT_SHAPING_PARAM)
              /\ IF last.shaping_function = "none"
                 THEN shaping_function' = DEFAULT_SHAPING_FUNCTION
                 ELSE ID_TO_LABEL[shaping_function'] = last.shaping_function
              /\ \A l \in LightSet, f \in Fields :
                    light_settings'[l][f] = last.light_settings[l][f]
              /\ ev'.outcome # "no_store"
                    => /\ flags' = flags
                       /\ <<min_brightness', max_brightness', min_kelvin',
                            max_kelvin'>>
                            = <<min_brightness, max_brightness, min_kelvin,
                                max_kelvin>>
                       /\ shaping' = shaping
                       /\ \A l \in LightSet, f \in Fields :
                             light_settings[l][f] # None
                               => light_settings'[l][f] = light_settings[l][f]
      ]_vars

\* C21 witness: a restart found the last states and the Setup has the master
\* switch off, bedtime on and an edited range or shaping function again
C21_Witness ==
    /\ ev.op = "restart"
    /\ ev.outcome = "store"
    /\ ~enabled
    /\ bedtime
    /\ edits > 0

\* C22 (as claimed): in every state of a registered Setup the global ranges
\* satisfy 0 <= min_brightness <= max_brightness <= 100 and
\* 1500 <= min_kelvin <= max_kelvin <= 6500, and so do the effective ranges of
\* every light.
C22_RangesOrdered ==
    domain_data = "entry"
    => /\ 0 <= min_brightness /\ min_brightness <= max_brightness
       /\ max_brightness <= 100
       /\ 1500 <= min_kelvin /\ min_kelvin <= max_kelvin
       /\ max_kelvin <= 6500
       /\ \A l \in LightSet :
             LET r == EffectiveRanges(CaptureLocals, l)
             IN  /\ 0 <= r.min_brightness
                 /\ r.min_brightness <= r.max_brightness
                 /\ r.max_brightness <= 100
                 /\ 1500 <= r.min_kelvin
                 /\ r.min_kelvin <= r.max_kelvin
                 /\ r.max_kelvin <= 6500

\* C23 (as claimed): every brightness target carried by a command is an
\* integer percent in [0, 100] (targets are kept in hundredths of a percent).
C23_BrightnessIsIntegerPercent ==
    (ev.cmd # "none" /\ ev.data.brightness_pct # None)
    => /\ ev.data.brightness_pct >= 0
       /\ ev.data.brightness_pct <= 100 * 100
       /\ ev.data.brightness_pct % 100 = 0

\* C24: a command carries a color temperature exactly when color temperature
\* is enabled and the target kelvin is > 0; its value is a positive integer,
\* the integer nearest to 1_000_000 / kelvin, and 500 for kelvin = 2000.  The
\* kelvin is kept in hundredths.
C24_ColorTempIsRoundedMired ==
    ev.cmd # "none"
    => LET c == ev.locals
           r == ev.eff
           pct == IF c.pct_shaped < 0 THEN 0
                  ELSE IF c.pct_shaped > 100 THEN 100 ELSE c.pct_shaped
           kelvin == IF c.bedtime THEN 100 * r.min_kelvin
                     ELSE 100 * r.min_kelvin
                            + (r.max_kelvin - r.min_kelvin) * pct
           m == ev.data.color_temp
           diff == m * kelvin - 100000000
       IN  /\ (m # None) <=> (c.color_temp_enabled /\ kelvin > 0)
           /\ m # None
                => /\ m > 0
                   /\ 2 * (IF diff < 0 THEN -diff ELSE diff) <= kelvin
                   /\ kelvin = 100 * 2000 => m = 500

\* C24 witness: in bedtime mode with min_kelvin = 2000 a light was sent 500
C24_Witness ==
    /\ ev.cmd # "none"
    /\ ev.locals.bedtime
    /\ ev.eff.min_kelvin = 2000
    /\ ev.data.color_temp = 500

\* C25: every SolarCycle produced from the next_rising and next_setting of
\* sun.sun has sunrise < midday < sunset and sunset < night_midpoint <
\* sunrise + 1 day, for every pair of instants
C25_CycleIsOrdered ==
    (/\ calc.fn = "daily_cosine_pct"
     /\ calc.applied
     /\ calc.sun.present
     /\ IsInstant(calc.sun.next_rising)
     /\ IsInstant(calc.sun.next_setting)
     /\ ~calc.result.raised)
    => LET c == calc.result.cycle
       IN  /\ c.sunrise < c.midday
           /\ c.midday < c.sunset
           /\ c.sunset < c.night_midpoint
           /\ c.night_midpoint < c.sunrise + Day


\* C26: the resolution of the solar cycle never raises, and when sun.sun is
\* absent, lacks next_rising or next_setting, or has a value there that is
\* not an instant, the cycle is sunrise 06:00, sunset 18:00, midday 12:00 and
\* night_midpoint 24:00 of the current local day
C26_ResolutionNeverFails ==
    (calc.fn = "daily_cosine_pct" /\ calc.applied)
    => LET day == calc.now_local - (calc.now_local % Day)
           no_instants == \/ ~calc.sun.present
                          \/ ~IsInstant(calc.sun.next_rising)
                          \/ ~IsInstant(calc.sun.next_setting)
       IN  /\ ~calc.result.raised
           /\ no_instants
                => calc.result.cycle
                     = [raised |-> FALSE,
                        sunrise |-> day + 6 * TicksPerHour,
                        sunset |-> day + 18 * TicksPerHour,
                        midday |-> day + 12 * TicksPerHour,
                        night_midpoint |-> day + 24 * TicksPerHour]

\* C27: for every resolved cycle the raw curve value is exactly 1.0 at
\* cycle.midday and exactly 0.0 at cycle.night_midpoint, and it lies in
\* [0, 1] at every instant
C27_PeakAtMiddayTroughAtNight ==
    (calc.fn = "daily_cosine_pct" /\ calc.applied /\ ~calc.result.raised)
    => LET r == calc.result
       IN  /\ r.pct >= 0
           /\ r.pct <= 10000
           /\ calc.now_local = r.cycle.midday => r.pct = 10000
           /\ calc.now_local = r.cycle.night_midpoint => r.pct = 0

\* the curve evaluated at the midday of a cycle read from sun.sun
C27_Witness ==
    /\ calc.fn = "daily_cosine_pct"
    /\ calc.applied
    /\ ~calc.result.raised
    /\ calc.sun.present
    /\ IsInstant(calc.sun.next_rising)
    /\ IsInstant(calc.sun.next_setting)
    /\ calc.sun.next_rising.at > calc.sun.next_setting.at
    /\ calc.now_local = calc.result.cycle.midday
    /\ calc.result.pct = 10000

\* C28: map_pct_to_range(0, vmin, vmax) is vmin and map_pct_to_range(1, vmin,
\* vmax) is vmax; a pct below 0 gives what 0 gives and a pct above 1 what 1
\* gives; for vmax >= vmin the result does not decrease when pct grows
C28_RangeMapping ==
    (calc.fn = "map_pct_to_range" /\ calc.applied)
    => /\ calc.pct <= 0 => calc.result = 100 * calc.vmin
       /\ calc.pct >= 100 => calc.result = 100 * calc.vmax
       /\ calc.vmax >= calc.vmin
            => \A q \in MapPcts :
                  q <= calc.pct
                  => map_pct_to_range(q, calc.vmin, calc.vmax) <= calc.result

\* a percentage below 0 mapped into a range that is not a single point
C28_Witness ==
    /\ calc.fn = "map_pct_to_range"
    /\ calc.applied
    /\ calc.pct < 0
    /\ calc.vmax > calc.vmin
    /\ calc.result = 100 * calc.vmin

\* C29: for a raw value in [0, 1], each of the four shaping functions and a
\* gamma in [0.01, 10], apply_shaping returns a value in [0, 1]; a shaping
\* parameter below 0.01, zero and negative ones included, gives what 0.01
\* gives
C29_ShapedWithinUnitInterval ==
    (/\ calc.fn = "apply_shaping"
     /\ calc.applied
     /\ calc.pct_raw >= 0
     /\ calc.pct_raw <= 100
     /\ calc.func \in KnownFunctions)
    => /\ calc.result # ZeroDivisionError
       /\ calc.result >= 0
       /\ calc.result <= 100
       /\ calc.shaping < 1
            => calc.result = Shaped(calc.pct_raw, calc.func, 1)

\* a shaping parameter of zero on a raw value of zero, and a fractional gamma
\* that lifts the sharpened triangle
C29_Witness ==
    /\ calc.fn = "apply_shaping"
    /\ calc.applied
    /\ \/ /\ calc.shaping = 0
          /\ calc.pct_raw = 0
          /\ calc.func = "gamma_sine"
          /\ calc.result = 0
       \/ /\ calc.shaping = 50
          /\ calc.pct_raw = 25
          /\ calc.func = "eased_triangular"
          /\ calc.result = 71

\* C30: with a function id that is none of the four known names apply_shaping
\* returns the raw value clamped to [0, 1], whatever gamma is, and raises
\* nothing; an empty or missing function id is treated as gamma_sine
C30_UnknownFunctionPassesThrough ==
    (calc.fn = "apply_shaping" /\ calc.applied)
    => /\ calc.func \in {"linear", "Gamma sine"}
            => calc.result = (IF calc.pct_raw < 0 THEN 0
                              ELSE IF calc.pct_raw > 100 THEN 100
                              ELSE calc.pct_raw)
       /\ calc.func = ""
            => calc.result
                 = Shaped(clamp01(calc.pct_raw), "gamma_sine",
                          Gamma(calc.shaping))

\* an unknown id with a gamma that would change the value, and an empty id
\* with a gamma that does
C30_Witness ==
    /\ calc.fn = "apply_shaping"
    /\ calc.applied
    /\ \/ /\ calc.func = "linear"
          /\ calc.shaping = 200
          /\ calc.pct_raw = 50
          /\ calc.result = 50
       \/ /\ calc.func = ""
          /\ calc.shaping = 200
          /\ calc.pct_raw = 50
          /\ calc.result = 25

\* C31 (as claimed): at cycle.midday, where the raw curve value is 1.0, a
\* pass that read bedtime off and brightness enabled sends to a light that
\* reports "on" that light's effective max_brightness, for each of the four
\* functions of the select with gamma = 1.
C31_MiddayGivesMaximum ==
    (/\ ev.cmd # "none"
     /\ ~ev.locals.bedtime
     /\ ev.locals.brightness_enabled
     /\ calc.fn = "daily_cosine_pct"
     /\ calc.now_local = calc.result.cycle.midday
     /\ shaping_function \in KnownFunctions
     /\ shaping_param = 100)
    => ev.data.brightness_pct = 100 * ev.eff.max_brightness

\* the last step was a state_changed event of light l that the handler
\* honored: the light went from not "on" to "on" with transition_on_turn_on
\* true, the master switch on and brightness or color temperature enabled
HonoredEdge(l) ==
    /\ ev.op = "state_changed"
    /\ ev.event.entity_id = l
    /\ TurnedOn(ev.event.old_state, ev.event.new_state)
    /\ domain_data = "entry"
    /\ light_on_listener
    /\ transition_on_turn_on
    /\ enabled
    /\ brightness_enabled \/ color_temp_enabled

\* C32 (as claimed): after a turn-on edge of a light is honored, a forced pass
\* eventually makes the service call for that light (whether the call returns
\* or raises), unless the light stops reporting "on"; the throttle window
\* does not matter.
C32_HonoredEdgeCommandsTheLight ==
    \A l \in {"light.a", "light.b"} :
        HonoredEdge(l)
          ~> (states[l] # "on" \/ (ev.force /\ (ev.cmd = l \/ ev.failed = l)))

\* C33 (as claimed): once the Setup is removed (its entry state is popped and
\* its listener unsubscribed), no step issues a command for it, whether a
\* trigger fires or a pass that was pending or suspended goes on; a forced
\* invocation only sends the notification.
C33_NoCommandAfterRemoval ==
    domain_data # "entry"
    => /\ ev.cmd = "none"
       /\ ev.failed = "none"
       /\ ~light_on_listener
       /\ (ev.op = "start" /\ ev.force) => ev.notify = 1

\* C34: selecting one of the four known labels stores its id and creates one
\* forced pass, setting the shaping parameter stores the value and creates
\* one forced pass, and neither issues a command itself; an option that is no
\* known label changes nothing and creates nothing; every forced pass that
\* evaluates the curve shapes it with the function and the parameter stored
\* when it starts, which are the new ones since the store precedes the task.
C34_ShapingChangeReachesThePass ==
    [][/\ (ev'.op = "select_option" /\ ev'.outcome \in DOMAIN LABEL_TO_ID)
          => /\ shaping_function' = LABEL_TO_ID[ev'.outcome]
             /\ pending' = pending + 1
             /\ inflight' = inflight
             /\ shaping_param' = shaping_param
       /\ (ev'.op = "select_option" /\ ev'.outcome \notin DOMAIN LABEL_TO_ID)
          => /\ shaping_function' = shaping_function
             /\ pending' = pending
             /\ UNCHANGED <<flags, config, last_light_update, inflight,
                            light_on_listener, states, unforced_start>>
       /\ ev'.op = "set_shaping_param"
          => /\ shaping_param' = ev'.at
             /\ pending' = pending + 1
             /\ inflight' = inflight
             /\ shaping_function' = shaping_function
       /\ (ev'.op = "start" /\ ev'.force /\ ev'.locals # NoLocals)
          => ev'.locals.pct_shaped
                = apply_shaping(pct_raw, shaping_function, shaping_param)]_vars

\* C34 witness: after another function was selected, a forced pass commands a
\* light with the curve shaped by it, which the seeded function shapes
\* differently
C34_Witness ==
    /\ shaping_function # DEFAULT_SHAPING_FUNCTION
    /\ ev.op = "start"
    /\ ev.force
    /\ ev.cmd # "none"
    /\ ev.locals.pct_shaped
          = apply_shaping(pct_raw, shaping_function, shaping_param)
    /\ ev.locals.pct_shaped
          # apply_shaping(pct_raw, DEFAULT_SHAPING_FUNCTION, shaping_param)

\* C35: last_light_update of the Setup never decreases: every write stores an
\* instant greater than or equal to the one it replaces.
C35_TimestampNeverDecreases ==
    [][(last_light_update # None /\ last_light_update' # None)
       => last_light_update' >= last_light_update]_vars

\* C36: while the master switch is off no service call for a light of the
\* Setup is made, also by a pass that passed the master check before the
\* switch was turned off.
C36_NoCommandWhileMasterOff ==
    ~enabled => (ev.cmd = "none" /\ ev.failed = "none")

\* C37: after a restart of a Setup whose master switch was last off, and
\* until the switch is turned on (no step of SpecSetup turns it on), no pass
\* makes a service call for a light, also not the pass of a turn-on edge that
\* arrives before the master switch has restored its state.
C37_NoCommandBeforeMasterRestored ==
    ev.op \in {"start", "resume"} => (ev.cmd = "none" /\ ev.failed = "none")

\* C38: a Setup that is registered and has a non-empty light list has its
\* light-turned-on listener subscribed, in every reachable state and also
\* after an unload whose platforms failed to unload.
C38_RegisteredSetupHasListener ==
    (domain_data = "entry" /\ Len(lights) > 0) => light_on_listener

\* the first light of the list that reports "on", 0 when there is none
FirstOn ==
    IF \E i \in 1..Len(lights) : states[lights[i]] = "on"
    THEN CHOOSE i \in 1..Len(lights) :
            /\ states[lights[i]] = "on"
            /\ \A j \in 1..(i - 1) : states[lights[j]] # "on"
    ELSE 0

\* C39: every tick of the brightness sensor's timer invokes one non-forced
\* pass and non-forced passes come from nowhere else; a tick of the
\* color-temperature sensor invokes none and changes nothing; whether the
\* tick's pass gets to the lights depends on neither feature flag, and with
\* brightness disabled and color temperature enabled it calls light.turn_on
\* with a color temperature and no brightness for the first light that is on.
C39_TickRunsOneUnforcedPass ==
    [][LET tick == next_timer # None /\ next_timer' # None
                    /\ next_timer' # next_timer
           runs == /\ domain_data = "entry" /\ enabled /\ Len(lights) > 0
                   /\ ~Throttled(FALSE, last_light_update, now, update_interval)
                   /\ sun_state = "ok"
       IN  /\ tick => /\ ev'.op = "start" /\ ~ev'.force /\ ev'.notify = 0
                      /\ pending' = pending
                      /\ Cardinality(BagToSet(inflight'))
                            <= Cardinality(BagToSet(inflight)) + 1
           /\ (ev'.op = "start" /\ ~ev'.force) => tick
           /\ ev'.op = "timer"
                => /\ ev'.cmd = "none" /\ ev'.failed = "none"
                   /\ UNCHANGED <<flags, config, last_light_update, pending,
                                  inflight, next_timer, unforced_start>>
           /\ (tick /\ runs)
                => ev'.outcome \in {"completed", "suspended", "raised"}
           /\ (tick /\ runs /\ ~brightness_enabled /\ color_temp_enabled
                 /\ FirstOn # 0)
                => /\ lights[FirstOn] \in {ev'.cmd, ev'.failed}
                   /\ ev'.data.color_temp # None
                   /\ ev'.data.brightness_pct = None]_vars

\* C39 witness: with brightness disabled and color temperature enabled, the
\* tick at instant 1 sent a color temperature and no brightness to a light
C39_Witness ==
    /\ ev.op = "start"
    /\ ~ev.force
    /\ now = 1
    /\ next_timer = 1 + TimerPeriod
    /\ ~brightness_enabled
    /\ color_temp_enabled
    /\ ev.cmd # "none"
    /\ ev.data.color_temp # None
    /\ ev.data.brightness_pct = None

\* C40: a step that changes update_interval, transition, a global range value
\* or a per-light override changes exactly one of these values, creates no
\* pass, sends no notification, makes no service call and leaves the
\* timestamp, the flags, the passes in flight and every other stored value
\* alone; a pass that starts afterwards throttles with the stored
\* update_interval and, when it gets to the lights, works with the stored
\* global ranges, transition and overrides.
C40_NumberEditOnlyStores ==
    [][LET glob == [min_brightness |-> min_brightness,
                    max_brightness |-> max_brightness,
                    min_kelvin |-> min_kelvin, max_kelvin |-> max_kelvin]
           glob_next == [min_brightness |-> min_brightness',
                         max_brightness |-> max_brightness',
                         min_kelvin |-> min_kelvin',
                         max_kelvin |-> max_kelvin']
           changed ==
              {<<"global", f>> : f \in {g \in Fields : glob_next[g] # glob[g]}}
              \cup {p \in LightSet \X Fields :
                        light_settings'[p[1]][p[2]] # light_settings[p[1]][p[2]]}
              \cup (IF update_interval' # update_interval
                    THEN {<<"global", "update_interval">>} ELSE {})
              \cup (IF transition' # transition
                    THEN {<<"global", "transition">>} ELSE {})
           commanded == IF ev'.cmd # "none" THEN ev'.cmd ELSE ev'.failed
       IN  /\ changed # {}
              => /\ Cardinality(changed) = 1
                 /\ ev'.op \notin {"start", "resume"}
                 /\ ev'.cmd = "none" /\ ev'.failed = "none" /\ ev'.notify = 0
                 /\ UNCHANGED <<domain_data, flags, lights, shaping,
                                last_light_update, light_on_listener, states,
                                next_timer, pending, inflight, unforced_start>>
           /\ (ev'.op = "start" /\ ~ev'.force /\ enabled /\ sun_state = "ok")
              => (ev'.outcome = "throttled"
                    <=> Throttled(FALSE, last_light_update, now, update_interval))
           /\ (ev'.op = "start" /\ ev'.locals # NoLocals)
              => /\ ev'.locals.global = glob
                 /\ ev'.locals.transition = transition
                 /\ commanded # "none"
                    => \A f \in Fields :
                          ev'.eff[f] = IF light_settings[commanded][f] # None
                                       THEN light_settings[commanded][f]
                                       ELSE glob[f]]_vars

\* C40 witness: the global minimum brightness was edited to 15 and the pass of
\* a later tick commands a light with it
C40_Witness ==
    /\ min_brightness = 15
    /\ ev.op = "start"
    /\ ev.cmd # "none"
    /\ ev.locals.global.min_brightness = 15
    /\ ev.eff.min_brightness = 15
    /\ pending = 0

====
